---- MODULE Spec2Model ----
(***************************************************************************)
(* A model of scraper.py (Heimbas Einsatz-Vorschau -> ICS / webhook).      *)
(*                                                                         *)
(* Texts are sequences of characters; a character is a one-element string  *)
(* token.  Two non-ASCII characters of the inputs are written as tokens:   *)
(* "uuml" (u umlaut, a word character) and "ndash" (the en dash U+2013).   *)
(* Python's None is the empty tuple None, a present value x is Some(x).    *)
(***************************************************************************)
EXTENDS Integers, Sequences, FiniteSets, TLC

\* ------------------------------------------------------------------ values

None == <<>>
Some(x) == <<x>>
IsNone(o) == o = <<>>
Val(o) == o[1]

Min(S) == CHOOSE x \in S : \A y \in S : x <= y
Max(S) == CHOOSE x \in S : \A y \in S : x >= y

\* ------------------------------------------------------- character classes

Digit == {"0", "1", "2", "3", "4", "5", "6", "7", "8", "9"}
LowerSeq == <<"a", "b", "c", "d", "e", "f", "g", "h", "i", "j", "k", "l", "m",
              "n", "o", "p", "q", "r", "s", "t", "u", "v", "w", "x", "y", "z">>
UpperSeq == <<"A", "B", "C", "D", "E", "F", "G", "H", "I", "J", "K", "L", "M",
              "N", "O", "P", "Q", "R", "S", "T", "U", "V", "W", "X", "Y", "Z">>
LowerSet == {LowerSeq[k] : k \in 1..26}
UpperSet == {UpperSeq[k] : k \in 1..26}
\* \s of Python's re
Space == {" ", "\n", "\t"}
\* \w of Python's re on str patterns (Unicode letters, digits, underscore)
WordChar == Digit \cup LowerSet \cup UpperSet \cup {"_", "uuml"}

\* int() of one decimal digit
DigitSeq == <<"0", "1", "2", "3", "4", "5", "6", "7", "8", "9">>
DigitVal(c) == CHOOSE v \in 0..9 : DigitSeq[v + 1] = c

\* str.lower() of one character
LowerChar(c) == IF c \in UpperSet THEN LowerSeq[CHOOSE k \in 1..26 : UpperSeq[k] = c] ELSE c
\* str.lower()
Lower(t) == [k \in 1..Len(t) |-> LowerChar(t[k])]

\* int() of a digit string
RECURSIVE ToInt(_)
ToInt(t) == IF t = <<>> THEN 0 ELSE 10 * ToInt(SubSeq(t, 1, Len(t) - 1)) + DigitVal(t[Len(t)])

\* str.strip()
Strip(t) ==
    LET keep == {k \in 1..Len(t) : t[k] \notin Space}
    IN IF keep = {} THEN <<>> ELSE SubSeq(t, Min(keep), Max(keep))

\* ---------------------------------------------------------- regex pieces
\* Positions are 1-based; a match "end" is the position after the match,
\* 0 means no match.

CharAt(t, p, cs) == p >= 1 /\ p <= Len(t) /\ t[p] \in cs
DigitsAt(t, p, n) == \A k \in 0..(n - 1) : CharAt(t, p + k, Digit)
\* \b between t[p-1] and t[p]
WordBoundary(t, p) == CharAt(t, p - 1, WordChar) # CharAt(t, p, WordChar)
\* the literal w (lower case) at p, ignoring case
LitAtI(t, p, w) == \A k \in 1..Len(w) : p + k - 1 <= Len(t) /\ LowerChar(t[p + k - 1]) = w[k]
\* the literal w at p
LitAt(t, p, w) == \A k \in 1..Len(w) : p + k - 1 <= Len(t) /\ t[p + k - 1] = w[k]
\* \s* (greedy): the position after the run of whitespace at p
SkipSpaces(t, p) ==
    LET stops == {q \in p..(Len(t) + 1) : ~CharAt(t, q, Space)}
    IN Min(stops)

\* \d{1,2}\. at p (two digits are tried first)
NumDotEnd(t, p) ==
    IF DigitsAt(t, p, 2) /\ CharAt(t, p + 2, {"."}) THEN p + 3
    ELSE IF DigitsAt(t, p, 1) /\ CharAt(t, p + 1, {"."}) THEN p + 2
    ELSE 0

\* ------------------------------------------------------------ extract_date
\* Values that a regex computes once and uses several times are passed as
\* parameters of a helper operator.

\* \d{1,2}\.\d{1,2}\. at p
NumDotAfter(t, q1) == IF q1 = 0 THEN 0 ELSE NumDotEnd(t, q1)
NumDot2End(t, p) == NumDotAfter(t, NumDotEnd(t, p))

\* (?:\d{2}|\d{4}) at q2: the alternative \d{2} is tried first and nothing
\* follows the group, so \d{4} is tried only when \d{2} fails
YearEnd(t, q2) ==
    IF q2 = 0 THEN 0
    ELSE IF DigitsAt(t, q2, 2) THEN q2 + 2
    ELSE IF DigitsAt(t, q2, 4) THEN q2 + 4
    ELSE 0

\* (\d{1,2}\.\d{1,2}\.(?:\d{2}|\d{4})) at p
DateEnd(t, p) == YearEnd(t, NumDot2End(t, p))

\* m.group(1) of the leftmost match, hits being the positions with a match
FirstDate(text, hits) ==
    IF hits = {} THEN None ELSE Some(SubSeq(text, Min(hits), DateEnd(text, Min(hits)) - 1))

\* re.search: the leftmost position with a match
extract_date(text) == FirstDate(text, {p \in 1..Len(text) : DateEnd(text, p) # 0})

\* ------------------------------------------------------ extract_time_range

\* (?:\d{2}|\d{4})\b at q2: here \d{4} is reached by backtracking when no
\* word boundary follows the two-digit year
BoundedYearEnd(t, q2) ==
    IF q2 = 0 THEN 0
    ELSE IF DigitsAt(t, q2, 2) /\ WordBoundary(t, q2 + 2) THEN q2 + 2
    ELSE IF DigitsAt(t, q2, 4) /\ WordBoundary(t, q2 + 4) THEN q2 + 4
    ELSE 0

\* \b\d{1,2}\.\d{1,2}\.(?:\d{2}|\d{4})\b at p
BoundedDateEnd(t, p) == IF WordBoundary(t, p) THEN BoundedYearEnd(t, NumDot2End(t, p)) ELSE 0

\* re.sub(<bounded date>, " ", text): non-overlapping matches, left to right;
\* the text from p on with the matches in hits (all match positions from p on)
\* replaced
RECURSIVE SanitizeFrom(_, _)
SanitizeHits(t, p, hits) ==
    IF hits = {} THEN SubSeq(t, p, Len(t))
    ELSE SubSeq(t, p, Min(hits) - 1) \o <<" ">> \o SanitizeFrom(t, BoundedDateEnd(t, Min(hits)))
SanitizeFrom(t, p) == SanitizeHits(t, p, {q \in p..Len(t) : BoundedDateEnd(t, q) # 0})

Sanitize(text) == SanitizeFrom(text, 1)

\* time_pat = \b\d{1,2}[:\.]\d{2}\b at p
TimeEnd(t, p) ==
    IF ~WordBoundary(t, p) THEN 0
    ELSE IF DigitsAt(t, p, 2) /\ CharAt(t, p + 2, {":", "."}) /\ DigitsAt(t, p + 3, 2)
            /\ WordBoundary(t, p + 5) THEN p + 5
    ELSE IF DigitsAt(t, p, 1) /\ CharAt(t, p + 1, {":", "."}) /\ DigitsAt(t, p + 2, 2)
            /\ WordBoundary(t, p + 4) THEN p + 4
    ELSE 0

\* \s*(time_pat) from q: <<start, end>> of the time, or <<>>
SpacedTime(t, s) == IF TimeEnd(t, s) = 0 THEN <<>> ELSE <<s, TimeEnd(t, s)>>
TimeAfterSpaces(t, q) == SpacedTime(t, SkipSpaces(t, q))

\* \s*[ndash\-]\s*(time_pat) from e1 (0: no first time): the second time
DashAt(t, q) == IF CharAt(t, q, {"ndash", "-"}) THEN TimeAfterSpaces(t, q + 1) ELSE <<>>
DashTail(t, e1) == IF e1 = 0 THEN <<>> ELSE DashAt(t, SkipSpaces(t, e1))

\* (time_pat)\s*[ndash\-]\s*(time_pat) at p: <<s1, e1, s2, e2>> or <<>>
PairOf(p, e1, second) == IF second = <<>> THEN <<>> ELSE <<p, e1>> \o second
DashPairAt(t, p) == PairOf(p, TimeEnd(t, p), DashTail(t, TimeEnd(t, p)))

\* \s*bis\s*(time_pat) from e1
BisAt(t, q) == IF LitAtI(t, q, <<"b", "i", "s">>) THEN TimeAfterSpaces(t, q + 3) ELSE <<>>
BisTail(t, first) == IF first = <<>> THEN <<>> ELSE BisAt(t, SkipSpaces(t, first[2]))

\* von\s*(time_pat)\s*bis\s*(time_pat) at p, re.I: <<s1, e1, s2, e2>> or <<>>
VonPair(t, first) == IF BisTail(t, first) = <<>> THEN <<>> ELSE first \o BisTail(t, first)
VonBisAt(t, p) ==
    IF LitAtI(t, p, <<"v", "o", "n">>) THEN VonPair(t, TimeAfterSpaces(t, p + 3)) ELSE <<>>

\* the two groups of a match m = <<s1, e1, s2, e2>>
Groups(s, m) == <<Some(SubSeq(s, m[1], m[2] - 1)), Some(SubSeq(s, m[3], m[4] - 1))>>

\* the three searches on the sanitized text s, given their match positions
TimeRangeOf(s, dash, von, one) ==
    IF dash # {} THEN Groups(s, DashPairAt(s, Min(dash)))
    ELSE IF von # {} THEN Groups(s, VonBisAt(s, Min(von)))
    ELSE IF one # {} THEN <<Some(SubSeq(s, Min(one), TimeEnd(s, Min(one)) - 1)), None>>
    ELSE <<None, None>>

TimeRangeIn(s) ==
    TimeRangeOf(s, {p \in 1..Len(s) : DashPairAt(s, p) # <<>>},
                   {p \in 1..Len(s) : VonBisAt(s, p) # <<>>},
                   {p \in 1..Len(s) : TimeEnd(s, p) # 0})

\* returns <<start, end>>, each None or Some(text)
extract_time_range(text) == TimeRangeIn(Sanitize(text))

\* ------------------------------------------------ extract_duration_minutes

\* (min|minute|minuten)\b at q
MinutesUnit(t, q) ==
    \/ LitAt(t, q, <<"m", "i", "n">>) /\ WordBoundary(t, q + 3)
    \/ LitAt(t, q, <<"m", "i", "n", "u", "t", "e">>) /\ WordBoundary(t, q + 6)
    \/ LitAt(t, q, <<"m", "i", "n", "u", "t", "e", "n">>) /\ WordBoundary(t, q + 7)

\* (\d{1,3})\s*(min|minute|minuten)\b at p with n digits in group 1
MinutesTry(t, p, n) == DigitsAt(t, p, n) /\ MinutesUnit(t, SkipSpaces(t, p + n))

\* (h|std|stunde|stunden)?\b at k
HoursUnit(t, k) ==
    \/ LitAt(t, k, <<"h">>) /\ WordBoundary(t, k + 1)
    \/ LitAt(t, k, <<"s", "t", "d">>) /\ WordBoundary(t, k + 3)
    \/ LitAt(t, k, <<"s", "t", "u", "n", "d", "e">>) /\ WordBoundary(t, k + 6)
    \/ LitAt(t, k, <<"s", "t", "u", "n", "d", "e", "n">>) /\ WordBoundary(t, k + 7)
    \/ WordBoundary(t, k)

\* \s*(h|std|stunde|stunden)?\b from q, with any number of the spaces taken
HoursTail(t, q) == \E k \in q..SkipSpaces(t, q) : HoursUnit(t, k)

\* (\d{1,2})([\.,](\d{1,2}))?\s*(h|std|stunde|stunden)?\b at p with d digits
\* of hours and f digits of fraction (f = 0: the optional group is skipped)
HoursTry(t, p, d, f) ==
    /\ DigitsAt(t, p, d)
    /\ IF f = 0 THEN HoursTail(t, p + d)
       ELSE /\ CharAt(t, p + d, {".", ","})
            /\ DigitsAt(t, p + d + 1, f)
            /\ HoursTail(t, p + d + 1 + f)

\* the order in which the regex engine tries <<d, f>>
HoursOrder == <<<<2, 2>>, <<2, 1>>, <<2, 0>>, <<1, 2>>, <<1, 1>>, <<1, 0>>>>
HoursTryK(t, p, k) == HoursTry(t, p, HoursOrder[k][1], HoursOrder[k][2])

\* a fraction read as minutes of the clock
RoundFracAsMinutes(frac, base) == frac

\* int(round(x)) for x = (frac / base) * 60; no tie occurs for base 10 or 100
RoundFrac(frac, base) == (2 * frac * 60 + base) \div (2 * base)

\* the minutes of an hours match at p with d digits of hours and f of fraction
HoursValue(t, p, d, f) ==
    IF f = 0 THEN ToInt(SubSeq(t, p, p + d - 1)) * 60
    ELSE ToInt(SubSeq(t, p, p + d - 1)) * 60
         + RoundFrac(ToInt(SubSeq(t, p + d + 1, p + d + f)), IF f = 1 THEN 10 ELSE 100)

HoursAt(t, p, k) == HoursValue(t, p, HoursOrder[k][1], HoursOrder[k][2])
MinutesAt(t, p, n) == ToInt(SubSeq(t, p, p + n - 1))

\* the two searches on the stripped lower-case text t, given their positions
DurationOf(t, mins, hrs) ==
    IF mins # {} THEN Some(MinutesAt(t, Min(mins), Max({m \in 1..3 : MinutesTry(t, Min(mins), m)})))
    ELSE IF hrs # {} THEN Some(HoursAt(t, Min(hrs), Min({j \in 1..6 : HoursTryK(t, Min(hrs), j)})))
    ELSE None

DurationIn(t) ==
    DurationOf(t, {p \in 1..Len(t) : \E n \in 1..3 : MinutesTry(t, p, n)},
                  {p \in 1..Len(t) : \E k \in 1..6 : HoursTryK(t, p, k)})

\* returns None or Some(minutes)
extract_duration_minutes(text) == DurationIn(Lower(Strip(text)))

\* --------------------------------------------- description, address, title

\* str.split(sep): the pieces of t between the characters of seps
RECURSIVE SplitOn(_, _)
SplitOn(t, seps) ==
    LET cuts == {k \in 1..Len(t) : t[k] \in seps}
    IN IF cuts = {} THEN <<t>>
       ELSE <<SubSeq(t, 1, Min(cuts) - 1)>> \o SplitOn(SubSeq(t, Min(cuts) + 1, Len(t)), seps)

\* sep.join(parts)
RECURSIVE Join(_, _)
Join(parts, sep) ==
    IF parts = <<>> THEN <<>>
    ELSE IF Len(parts) = 1 THEN parts[1]
    ELSE parts[1] \o sep \o Join(Tail(parts), sep)

\* max(cells, key=len).strip(): the first cell of greatest length
infer_description(cells) ==
    LET longest == Max({Len(cells[k]) : k \in 1..Len(cells)})
    IN Strip(cells[Min({k \in 1..Len(cells) : Len(cells[k]) = longest})])

\* [l.strip() for l in description.split("\n") if l.strip()]
CandLines(description) ==
    LET lines == SplitOn(description, {"\n"})
    IN SelectSeq([k \in 1..Len(lines) |-> Strip(lines[k])], LAMBDA l : l # <<>>)

\* adresse\s*[:\-]\s*(.+)$ at p of a stripped line, re.I: start of group 1 or 0
AdresseAt(line, p) ==
    LET q == IF LitAtI(line, p, <<"a", "d", "r", "e", "s", "s", "e">>)
             THEN SkipSpaces(line, p + 7) ELSE 0
        r == IF q # 0 /\ CharAt(line, q, {":", "-"}) THEN SkipSpaces(line, q + 1) ELSE 0
    IN IF r # 0 /\ r <= Len(line) THEN r ELSE 0

\* re.search(r"\b\d{5}\b", t)
HasZip(t) == \E p \in 1..Len(t) : WordBoundary(t, p) /\ DigitsAt(t, p, 5) /\ WordBoundary(t, p + 5)

\* returns None or Some(text)
infer_address(description, cells) ==
    LET cand == CandLines(description)
        lab  == {k \in 1..Len(cand) : \E p \in 1..Len(cand[k]) : AdresseAt(cand[k], p) # 0}
        zip  == {k \in 1..Len(cand) : HasZip(cand[k])}
        zc   == {k \in 1..Len(cells) : HasZip(cells[k])}
    IN IF lab # {} THEN
           LET line == cand[Min(lab)]
               p == Min({x \in 1..Len(line) : AdresseAt(line, x) # 0})
           IN Some(Strip(SubSeq(line, AdresseAt(line, p), Len(line))))
       ELSE IF zip # {} THEN Some(cand[Min(zip)])
       ELSE IF zc # {} THEN Some(Strip(cells[Min(zc)]))
       ELSE IF cand # <<>> /\ Len(cand[Len(cand)]) > 10 THEN Some(cand[Len(cand)])
       ELSE None

Einsatz == <<"E", "i", "n", "s", "a", "t", "z">>

\* title = description.split("\n")[0]; re.split(r"[\.!?]", title)[0].strip() or "Einsatz"
TitleOf(description) ==
    LET first == SplitOn(description, {"\n"})[1]
        head  == Strip(SplitOn(first, {".", "!", "?"})[1])
    IN IF head = <<>> THEN Einsatz ELSE head

\* ------------------------------------------------------- dates and times
\* A naive datetime is the number of minutes since 1970-01-01 00:00 on the
\* wall clock; datetime + timedelta(minutes=n) is integer addition, and two
\* datetimes with the same tzinfo compare by their wall-clock fields.

IsLeap(y) == (y % 4 = 0 /\ y % 100 # 0) \/ y % 400 = 0
DaysInMonth(y, m) ==
    IF m = 2 THEN (IF IsLeap(y) THEN 29 ELSE 28)
    ELSE IF m \in {4, 6, 9, 11} THEN 30 ELSE 31

\* days from 1970-01-01 to the proleptic Gregorian date y-m-d
DaysFromCivil(y, m, d) ==
    LET yy  == IF m <= 2 THEN y - 1 ELSE y
        era == yy \div 400
        yoe == yy - era * 400
        doy == (153 * (IF m > 2 THEN m - 3 ELSE m + 9) + 2) \div 5 + d - 1
        doe == yoe * 365 + yoe \div 4 - yoe \div 100 + doy
    IN era * 146097 + doe - 719468

\* <<year, month, day>> of a day number
CivilFromDays(z) ==
    LET zz  == z + 719468
        era == zz \div 146097
        doe == zz - era * 146097
        yoe == (doe - doe \div 1460 + doe \div 36524 - doe \div 146096) \div 365
        doy == doe - (365 * yoe + yoe \div 4 - yoe \div 100)
        mp  == (5 * doy + 2) \div 153
        d   == doy - (153 * mp + 2) \div 5 + 1
        m   == IF mp < 10 THEN mp + 3 ELSE mp - 9
        y   == yoe + era * 400 + (IF m <= 2 THEN 1 ELSE 0)
    IN <<y, m, d>>

\* datetime(year, month, day, hour, minute)
DateTime(y, m, d, h, mi) == DaysFromCivil(y, m, d) * 1440 + h * 60 + mi

\* a constructor that takes any month and day
ValidDateAnyDay(y, m, d) == y \in 1..9999

\* datetime(year, month, day) raises ValueError outside these ranges
ValidDate(y, m, d) == y \in 1..9999 /\ m \in 1..12 /\ d \in 1..DaysInMonth(y, m)

\* an expansion whose pivot is off by one
ExpandYearPivot71(year) ==
    IF Len(year) = 2
    THEN (IF ToInt(year) < 71 THEN 2000 + ToInt(year) ELSE 1900 + ToInt(year))
    ELSE ToInt(year)

\* if len(year) == 2: year = ("20" + year) if int(year) < 70 else ("19" + year)
ExpandYear(year) ==
    IF Len(year) = 2
    THEN (IF ToInt(year) < 70 THEN 2000 + ToInt(year) ELSE 1900 + ToInt(year))
    ELSE ToInt(year)

\* returns None (an exception) or Some(<<year, month, day>>)
parse_german_date(date_str) ==
    LET parts == SplitOn(date_str, {"."})
    IN IF Len(parts) # 3 \/ \E k \in 1..3 : parts[k] = <<>> \/ ~DigitsAt(parts[k], 1, Len(parts[k]))
       THEN None
       ELSE LET day   == ToInt(parts[1])
                month == ToInt(parts[2])
                year  == ExpandYear(parts[3])
            IN IF ValidDate(year, month, day) THEN Some(<<year, month, day>>) ELSE None

\* a check of the hour alone
ValidTimeHourOnly(hour, minute) == hour \in 0..23

\* if not (0 <= hour <= 23 and 0 <= minute <= 59): raise ValueError
ValidTime(hour, minute) == hour \in 0..23 /\ minute \in 0..59

\* returns None (an exception) or Some(<<hour, minute>>)
parse_time(time_str) ==
    LET sep   == IF \E k \in 1..Len(time_str) : time_str[k] = ":" THEN ":" ELSE "."
        parts == SplitOn(time_str, {sep})
    IN IF Len(parts) # 2 \/ \E k \in 1..2 : parts[k] = <<>> \/ ~DigitsAt(parts[k], 1, Len(parts[k]))
       THEN None
       ELSE IF ValidTime(ToInt(parts[1]), ToInt(parts[2]))
            THEN Some(<<ToInt(parts[1]), ToInt(parts[2])>>)
            ELSE None

\* Europe/Berlin (EU rule, in force since 1996): summer time runs from the
\* last Sunday of March 03:00 wall clock to the last Sunday of October 03:00;
\* a wall-clock time in the skipped or repeated hour is read with fold=0.
LastSunday(y, m) == 31 - ((DaysFromCivil(y, m, 31) + 4) % 7)
UtcOffset(dt) ==
    LET y == CivilFromDays(dt \div 1440)[1]
    IN IF dt >= DateTime(y, 3, LastSunday(y, 3), 3, 0) /\ dt < DateTime(y, 10, LastSunday(y, 10), 3, 0)
       THEN 120 ELSE 60
\* dt.astimezone(timezone.utc) for a datetime with tzinfo=BERLIN_TZ
AsUtc(dt) == dt - UtcOffset(dt)

\* f"{n:02d}" and f"{n:04d}" for n within the width
Pad2(n) == <<DigitSeq[((n \div 10) % 10) + 1], DigitSeq[(n % 10) + 1]>>
Pad4(n) == Pad2(n \div 100) \o Pad2(n % 100)

\* datetime.isoformat() of a UTC datetime: YYYY-MM-DDTHH:MM:SS+00:00
IsoFormatUtc(dt) ==
    LET c == CivilFromDays(dt \div 1440)
    IN Pad4(c[1]) \o <<"-">> \o Pad2(c[2]) \o <<"-">> \o Pad2(c[3]) \o <<"T">>
       \o Pad2((dt % 1440) \div 60) \o <<":">> \o Pad2(dt % 60)
       \o <<":", "0", "0", "+", "0", "0", ":", "0", "0">>

\* ------------------------------------------------------ parse_table_entries
\* An entry is a record [date, start_time, end_time, description, address,
\* duration_minutes]; end_time, address and duration_minutes are None or Some.

\* \bdauer\b, re.I
HasDauer(t) ==
    \E p \in 1..Len(t) : WordBoundary(t, p) /\ LitAtI(t, p, <<"d", "a", "u", "e", "r">>)
                         /\ WordBoundary(t, p + 5)

\* the index of the first header cell naming the duration column, or None
DurationColIdx(rows) ==
    LET header_cells == IF rows = <<>> THEN <<>> ELSE rows[1]
        hits == {k \in 1..Len(header_cells) : HasDauer(header_cells[k])}
    IN IF hits = {} THEN None ELSE Some(Min(hits))

CellSep == <<" ", "|", " ">>

\* a row loop that skips a row only for a missing date
EntryOfDateOnly(date_str, times, description, address, duration_minutes) ==
    IF IsNone(date_str) THEN None
    ELSE Some([date |-> Val(date_str),
               start_time |-> IF IsNone(times[1]) THEN <<>> ELSE Val(times[1]),
               end_time |-> times[2],
               description |-> description,
               address |-> address,
               duration_minutes |-> duration_minutes])

\* the entry built from the extracted fields, None when the row is skipped
EntryOf(date_str, times, description, address, duration_minutes) ==
    IF IsNone(date_str) \/ IsNone(times[1]) THEN None
    ELSE Some([date |-> Val(date_str),
               start_time |-> Val(times[1]),
               end_time |-> times[2],
               description |-> description,
               address |-> address,
               duration_minutes |-> duration_minutes])

\* the duration of the column named "Dauer", when the row has that cell
ColumnDuration(cells, duration_col_idx) ==
    IF ~IsNone(duration_col_idx) /\ Len(cells) >= Val(duration_col_idx)
    THEN extract_duration_minutes(cells[Val(duration_col_idx)])
    ELSE None

\* if duration_minutes is None: duration_minutes = extract_duration_minutes(combined)
DurationOr(from_col, combined) ==
    IF IsNone(from_col) THEN extract_duration_minutes(combined) ELSE from_col

RowEntry(cells, combined, description, duration_col_idx) ==
    EntryOf(extract_date(combined), extract_time_range(combined), description,
            infer_address(description, cells),
            DurationOr(ColumnDuration(cells, duration_col_idx), combined))

\* one iteration of the row loop: None (the row is skipped) or Some(entry)
ParseRow(cells, duration_col_idx) ==
    IF Len(cells) < 2 THEN None
    ELSE RowEntry(cells, Join(cells, CellSep), infer_description(cells), duration_col_idx)

\* entries.append(...) unless the row was skipped
AppendEntry(entries, e) == IF IsNone(e) THEN entries ELSE Append(entries, Val(e))

\* the row loop over rows[1..k]
RECURSIVE ParseRows(_, _, _)
ParseRows(rows, k, duration_col_idx) ==
    IF k = 0 THEN <<>>
    ELSE AppendEntry(ParseRows(rows, k - 1, duration_col_idx), ParseRow(rows[k], duration_col_idx))

\* a parser that returns the empty list
EntriesNoError(entries) == [err |-> "", entries |-> entries]

\* if not entries: raise RuntimeError(...)
EntriesOrError(entries) ==
    IF entries = <<>> THEN [err |-> "keine auswertbaren Einsatz-Zeilen", entries |-> <<>>]
    ELSE [err |-> "", entries |-> entries]

\* html is [kind, rows]: kind "notable" (no <table> in the document),
\* "nomatch" (no table with a schedule keyword) or "table" with the chosen
\* table's rows of cell texts.  Returns [err, entries]; err # "" is the
\* RuntimeError raised.
parse_table_entries(html) ==
    IF html.kind = "notable" THEN [err |-> "Keine Tabelle", entries |-> <<>>]
    ELSE IF html.kind = "nomatch" THEN [err |-> "Keine passende Einsatz-Tabelle", entries |-> <<>>]
    ELSE EntriesOrError(ParseRows(html.rows, Len(html.rows), DurationColIdx(html.rows)))

\* ------------------------------------------------------------ identifiers

\* hashlib.sha1(payload).hexdigest(), idealised as collision-free: the digest
\* is the payload in a sha1 wrapper, so digests are equal exactly when the
\* payloads are
Sha1Hex(payload) == <<"sha1(">> \o payload \o <<")">>

UidSuffix == <<"@", "h", "e", "i", "m", "b", "a", "s", "-", "i", "c", "s">>

\* location is None or Some(text)
stable_uid(start_dt, end_dt, location, description) ==
    Sha1Hex(Join(<<IsoFormatUtc(AsUtc(start_dt)),
                   IsoFormatUtc(AsUtc(end_dt)),
                   IF IsNone(location) THEN <<>> ELSE Val(location),
                   description>>, <<"|">>)) \o UidSuffix

NoneStr == <<"N", "o", "n", "e">>
\* str(x) of an optional text
StrOpt(o) == IF IsNone(o) THEN NoneStr ELSE Val(o)

\* the title send_plan_records derives and stores under "title"
TitleText(entry) == TitleOf(Strip(entry.description))

\* make_einsatz_id_from_entry(entry_for_hash), entry_for_hash = entry + title
make_einsatz_id_from_entry(entry, title) ==
    Sha1Hex(Join(<<Strip(entry.date),
                   Strip(entry.start_time),
                   Strip(StrOpt(entry.end_time)),
                   IF IsNone(entry.address) THEN <<>> ELSE Strip(Val(entry.address)),
                   IF Strip(title) = <<>> THEN TitleText(entry) ELSE Strip(title)>>, <<"|">>))

\* --------------------------------------------------------------- build_ics

\* minutes added when the end time is not after the start
InvertedFallbackMinutes == 30
\* minutes added when there is neither an end time nor a positive duration
DefaultDurationMinutes == 60

\* a resolution that prefers a positive duration to the end time
ResolveEndDurationFirst(start_dt, has_end, end_dt, duration) ==
    IF ~IsNone(duration) /\ Val(duration) > 0 THEN start_dt + Val(duration)
    ELSE IF has_end THEN (IF end_dt <= start_dt THEN start_dt + InvertedFallbackMinutes ELSE end_dt)
    ELSE start_dt + DefaultDurationMinutes

\* a resolution that keeps a zero-length range
ResolveEndStrictlyBefore(start_dt, has_end, end_dt, duration) ==
    IF has_end THEN (IF end_dt < start_dt THEN start_dt + InvertedFallbackMinutes ELSE end_dt)
    ELSE IF ~IsNone(duration) /\ Val(duration) > 0 THEN start_dt + Val(duration)
    ELSE start_dt + DefaultDurationMinutes

\* a resolution that adds any duration that is present
ResolveEndAnyDuration(start_dt, has_end, end_dt, duration) ==
    IF has_end THEN (IF end_dt <= start_dt THEN start_dt + InvertedFallbackMinutes ELSE end_dt)
    ELSE IF ~IsNone(duration) THEN start_dt + Val(duration)
    ELSE start_dt + DefaultDurationMinutes

\* the end instant build_ics chooses, given the parsed start and, when the
\* entry has a (non-empty) end time, the parsed end of the same day
ResolveEnd(start_dt, has_end, end_dt, duration) ==
    IF has_end THEN (IF end_dt <= start_dt THEN start_dt + InvertedFallbackMinutes ELSE end_dt)
    ELSE IF ~IsNone(duration) /\ Val(duration) > 0 THEN start_dt + Val(duration)
    ELSE start_dt + DefaultDurationMinutes

\* if e.get("end_time"): None and "" are falsy
Truthy(o) == ~IsNone(o) /\ Val(o) # <<>>

\* the body of the try block up to end_dt: None when parse_german_date or
\* parse_time raises, else Some(<<start_dt, end_dt>>) (wall-clock minutes)
Resolve(e) ==
    LET d == parse_german_date(e.date)
        s == parse_time(e.start_time)
    IN IF IsNone(d) \/ IsNone(s) THEN None
       ELSE LET start_dt == DateTime(Val(d)[1], Val(d)[2], Val(d)[3], Val(s)[1], Val(s)[2])
            IN IF Truthy(e.end_time)
               THEN LET en == parse_time(Val(e.end_time))
                    IN IF IsNone(en) THEN None
                       ELSE Some(<<start_dt,
                                   ResolveEnd(start_dt, TRUE,
                                              DateTime(Val(d)[1], Val(d)[2], Val(d)[3],
                                                       Val(en)[1], Val(en)[2]),
                                              e.duration_minutes)>>)
               ELSE Some(<<start_dt, ResolveEnd(start_dt, FALSE, 0, e.duration_minutes)>>)

\* an event whose uid also hashes the start as the row wrote it
MakeEventRawStart(e, r) ==
    LET description == Strip(e.description)
    IN [uid |-> stable_uid(r[1], r[2], e.address, e.start_time \o <<"|">> \o description),
        dtstart |-> r[1],
        dtend |-> r[2],
        summary |-> TitleOf(description),
        location |-> IF Truthy(e.address) THEN e.address ELSE None,
        description |-> IF description # <<>> THEN Some(description) ELSE None]

\* the VEVENT added for entry e resolved to r = <<start_dt, end_dt>>
MakeEvent(e, r) ==
    LET description == Strip(e.description)
    IN [uid |-> stable_uid(r[1], r[2], e.address, description),
        dtstart |-> r[1],
        dtend |-> r[2],
        summary |-> TitleOf(description),
        location |-> IF Truthy(e.address) THEN e.address ELSE None,
        description |-> IF description # <<>> THEN Some(description) ELSE None]

\* ------------------------------------------------------- send_plan_records

UserLabel == <<"u", "s", "e", "r">>

\* parse_german_date(date_str).strftime("%d.%m.%Y"), "" on an exception
GermanDate(date_str) ==
    LET d == parse_german_date(date_str)
    IN IF IsNone(d) THEN <<>>
       ELSE Pad2(Val(d)[3]) \o <<".">> \o Pad2(Val(d)[2]) \o <<".">> \o Pad4(Val(d)[1])

\* str(x).strip() with the text "none" (any case) replaced by ""
NoNone(t) == IF Lower(Strip(t)) = Lower(NoneStr) THEN <<>> ELSE Strip(t)

\* minutes added by the forwarder when the duration is not a positive int
ForwardDefaultMinutes == 60

\* the end string computed when the entry has no end time, "" on an exception
ComputedEnd(date_str, start_str, duration_minutes) ==
    LET d == parse_german_date(date_str)
        s == parse_time(start_str)
    IN IF IsNone(d) \/ IsNone(s) THEN <<>>
       ELSE LET duration == IF ~IsNone(duration_minutes) /\ Val(duration_minutes) > 0
                            THEN Val(duration_minutes) ELSE ForwardDefaultMinutes
                computed_end == DateTime(Val(d)[1], Val(d)[2], Val(d)[3], Val(s)[1], Val(s)[2])
                                + duration
            IN Pad2((computed_end % 1440) \div 60) \o <<":">> \o Pad2(computed_end % 60)

\* the JSON body posted for one entry
MakePayload(user_label, entry) ==
    LET date_str == Strip(entry.date)
        title_text == TitleText(entry)
        german_date == GermanDate(date_str)
        start_str == NoNone(entry.start_time)
        raw_end == IF IsNone(entry.end_time) THEN <<>> ELSE NoNone(Val(entry.end_time))
        end_str == IF raw_end # <<>> THEN raw_end
                   ELSE ComputedEnd(date_str, start_str, entry.duration_minutes)
    IN [type |-> "plan",
        user |-> user_label,
        einsatzId |-> make_einsatz_id_from_entry(entry, title_text),
        datum |-> IF german_date # <<>> THEN german_date ELSE date_str,
        start_plan |-> start_str,
        ende_plan |-> end_str,
        titel |-> title_text,
        adresse |-> IF IsNone(entry.address) THEN <<>> ELSE Strip(Val(entry.address))]

\* what one pass through the try block of the loop can do: the POST returns
\* a status below 400, returns a status >= 400, raises a
\* requests.RequestException, or some other Exception is raised
Outcomes == {"ok", "http_error", "request_exception", "other_exception"}

\* a loop body that catches requests.RequestException only
LoopContinuesRequestOnly(outcome) == outcome # "other_exception"

\* whether the loop goes on to the next entry after an outcome (every
\* outcome is either a return of post or caught by one of the two excepts)
LoopContinues(outcome) == outcome \in Outcomes

\* ------------------------------------------------------------------ inputs

\* the greatest number of data rows of an input table
MaxRows == 2
\* the greatest number of entries of a list handed to the two consumers
MaxEntries == 1

\* header rows of the input tables
Headers ==
  <<<<<<"D", "a", "t", "u", "m">>,
     <<"U", "h", "r", "z", "e", "i", "t">>>>,
    <<<<"D", "a", "t", "u", "m">>,
     <<"U", "h", "r", "z", "e", "i", "t">>,
     <<"D", "a", "u", "e", "r">>,
     <<"B", "e", "s", "c", "h", "r", "e", "i", "b", "u", "n", "g">>>>>>

\* data rows of the input tables (cell texts as get_text("\n", strip=True)
\* gives them)
RowPool ==
  <<\* 1: the row of the end-to-end example
    <<<<"1", "2", ".", "0", "3", ".", "2", "0", "2", "5">>,
      <<"1", "0", ":", "0", "0", " ", "-", " ", "1", "1", ":", "3", "0", " ", "|", " ", "H", "a", "u", "s", "b", "e", "s", "u", "c", "h", " ", "M", "uuml", "l", "l", "e", "r", " ", "|", " ", "A", "d", "r", "e", "s", "s", "e", ":", " ", "G", "a", "r", "t", "e", "n", "s", "t", "r", ".", " ", "5", ",", " ", "1", "2", "3", "4", "5", " ", "M", "u", "s", "t", "e", "r", "s", "t", "a", "d", "t">>>>,
    \* 2: start only, empty duration cell
    <<<<"1", "2", ".", "0", "3", ".", "2", "5">>,
      <<"0", "9", ":", "0", "0">>,
      <<>>,
      <<"P", "f", "l", "e", "g", "e", ".", " ", "A">>>>,
    \* 3: as row 2 with another second sentence
    <<<<"1", "2", ".", "0", "3", ".", "2", "5">>,
      <<"0", "9", ":", "0", "0">>,
      <<>>,
      <<"P", "f", "l", "e", "g", "e", ".", " ", "B">>>>,
    \* 4: as row 2 with the start written H:MM and a duration cell
    <<<<"1", "2", ".", "0", "3", ".", "2", "5">>,
      <<"9", ":", "0", "0">>,
      <<"0", ",", "7", "5">>,
      <<"P", "f", "l", "e", "g", "e", ".", " ", "A">>>>,
    \* 5: day 32, month 13
    <<<<"3", "2", ".", "1", "3", ".", "2", "5">>,
      <<"0", "9", ":", "0", "0">>,
      <<>>,
      <<"P", "f", "l", "e", "g", "e", ".", " ", "A">>>>,
    \* 6: hour 25
    <<<<"1", "2", ".", "0", "3", ".", "2", "5">>,
      <<"2", "5", ":", "0", "0">>,
      <<>>,
      <<"P", "f", "l", "e", "g", "e", ".", " ", "A">>>>,
    \* 7: end minute 75
    <<<<"1", "2", ".", "0", "3", ".", "2", "5">>,
      <<"0", "9", ":", "0", "0", " ", "-", " ", "1", "0", ":", "7", "5">>,
      <<>>,
      <<"P", "f", "l", "e", "g", "e", ".", " ", "A">>>>,
    \* 8: a single cell holding date and time
    <<<<"1", "2", ".", "0", "3", ".", "2", "5", " ", "0", "9", ":", "0", "0", " ", "P", "f", "l", "e", "g", "e">>>>>>

\* further rows, for the specification of parse_table_entries alone
ExtraRows ==
  <<\* 9: a date and no time
    <<<<"1", "2", ".", "0", "3", ".", "2", "5">>,
      <<>>,
      <<>>,
      <<"P", "f", "l", "e", "g", "e", ".", " ", "A">>>>,
    \* 10: a time and no date
    <<<<>>,
      <<"0", "9", ":", "0", "0">>,
      <<>>,
      <<"P", "f", "l", "e", "g", "e", ".", " ", "A">>>>,
    \* 11: times written H.MM
    <<<<"1", ".", "4", ".", "2", "5">>,
      <<"8", ".", "3", "0", " ", "-", " ", "9", ".", "1", "5">>,
      <<>>,
      <<"P", "f", "l", "e", "g", "e", ".", " ", "A">>>>>>

\* rows parsed only as the single data row of a table
TextRows ==
  <<\* 1: a duration cell in hours with a unit
    <<<<"1", "2", ".", "0", "3", ".", "2", "5">>,
      <<"0", "9", ":", "0", "0">>,
      <<"2", ",", "0", " ", "S", "t", "d", ".">>,
      <<"P", "f", "l", "e", "g", "e", ".", " ", "A">>>>,
    \* 2: a duration cell in minutes
    <<<<"1", "2", ".", "0", "3", ".", "2", "5">>,
      <<"0", "9", ":", "0", "0">>,
      <<"9", "0", " ", "M", "i", "n", "u", "t", "e", "n">>,
      <<"P", "f", "l", "e", "g", "e", ".", " ", "A">>>>,
    \* 3: a duration cell in hours with two decimals
    <<<<"1", "2", ".", "0", "3", ".", "2", "5">>,
      <<"0", "9", ":", "0", "0">>,
      <<"2", ",", "3", "0">>,
      <<"P", "f", "l", "e", "g", "e", ".", " ", "A">>>>,
    \* 4: a time range written with an en dash
    <<<<"1", "3", ".", "0", "8", ".", "2", "5">>,
      <<"0", "8", ":", "0", "0", " ", "ndash", " ", "0", "9", ":", "1", "5">>,
      <<>>,
      <<"P", "f", "l", "e", "g", "e", ".", " ", "A">>>>,
    \* 5: a date that follows a weekday without a space
    <<<<"M", "o", "1", "3", ".", "0", "8", ".", "2", "5">>,
      <<"P", "f", "l", "e", "g", "e">>>>>>

\* every sequence of at most n elements of the sequence pool
SeqsUpTo(pool, n) == UNION {[1..k -> {pool[j] : j \in 1..Len(pool)}] : k \in 0..n}

\* the documents a run can be given
Htmls ==
    {[kind |-> "notable", rows |-> <<>>], [kind |-> "nomatch", rows |-> <<>>]}
    \cup {[kind |-> "table", rows |-> <<Headers[h]>> \o rs] :
              h \in 1..Len(Headers), rs \in SeqsUpTo(RowPool, MaxRows)}

\* the documents parse_table_entries is given on its own
HtmlsParse ==
    {[kind |-> "notable", rows |-> <<>>], [kind |-> "nomatch", rows |-> <<>>]}
    \cup {[kind |-> "table", rows |-> <<Headers[h]>> \o rs] :
              h \in 1..Len(Headers), rs \in SeqsUpTo(RowPool \o ExtraRows, MaxRows)}
    \cup {[kind |-> "table", rows |-> <<Headers[h], TextRows[k]>>] :
              h \in 1..Len(Headers), k \in 1..Len(TextRows)}

\* entries handed to the two consumers directly: every combination of a
\* start, an end (absent, before, at and after the 09:00 start, and one with
\* minute 75) and a duration (absent, negative, zero, positive)
EntryDate == <<"1", "2", ".", "0", "3", ".", "2", "5">>
EntryStarts == {<<"0", "9", ":", "0", "0">>, <<"2", "3", ":", "5", "0">>}
EntryEnds == {None, Some(<<"0", "8", ":", "3", "0">>), Some(<<"0", "9", ":", "0", "0">>), Some(<<"1", "0", ":", "1", "5">>), Some(<<"1", "0", ":", "7", "5">>)}
EntryDurations == {None, Some(-15), Some(0), Some(45)}
EntryText == <<"P", "f", "l", "e", "g", "e", ".", " ", "A">>
EntryPool ==
    {[date |-> EntryDate, start_time |-> s, end_time |-> e, description |-> EntryText,
      address |-> None, duration_minutes |-> d] :
         s \in EntryStarts, e \in EntryEnds, d \in EntryDurations}
\* entries of the first of January of every two-digit year and of some
\* four-digit years
YearTexts ==
    {Pad2(yy) : yy \in 0..99} \cup {<<"1", "9", "6", "9">>, <<"2", "0", "2", "5">>, <<"2", "0", "7", "0">>}
YearEntries ==
    {[date |-> <<"0", "1", ".", "0", "1", ".">> \o y, start_time |-> <<"0", "9", ":", "0", "0">>, end_time |-> None,
      description |-> EntryText, address |-> None, duration_minutes |-> None] :
         y \in YearTexts}
EntryLists ==
    UNION {[1..k -> EntryPool] : k \in 0..MaxEntries} \cup {<<e>> : e \in YearEntries}

\* --------------------------------------------------------------- the run
\* main() in single-user mode: fetch_entries_for_user (the document is the
\* input html), send_plan_records, build_ics.

VARIABLES
    html,       \* the fetched document
    webhook,    \* whether GSHEETS_WEBHOOK is set
    pc,         \* "parse", "send", "build", "done", "exit", "crash"
    entries,    \* the list returned by parse_table_entries
    idx,        \* the position of the running loop in entries
    posts,      \* the passes of the forwarder's loop: [i, payload, outcome]
    events,     \* the components added to the calendar so far: [i, ev]
    icsFile,    \* None, or Some(the events written to the output path)
    log,        \* the debug and error messages: [kind, i]
    exitCode,   \* None while running, Some(status) after
    users,      \* multi-user mode: users_list, a sequence of [creds, doc]
    u,          \* the position of the user loop in users
    combined,   \* combined_entries: [user, i, e] for entry i of a user
    any_success,
    files,      \* the files written in multi-user mode: [path, entries, events]
    calls,      \* the calls of send_plan_records and build_ics in multi-user
                \* mode: [fn, path, origins], origins the <<user, i>> handed over
    lpc,            \* the position in login_and_get_einsatz_vorschau_html
    login_attempts,
    timeouts,       \* the times the handler of PlaywrightTimeoutError ran
    iterations,     \* the iterations of the login loop begun so far
    submissions,    \* the times the login form was submitted so far
    attempt,        \* the passes of the polling loop made after a submission
    mainDoc,        \* the main document after the navigation: [plausible, keyword]
    frames,         \* page.frames without the main frame: [raises, tables, plausible]
    final_html,
    ret             \* the HTML the function returned

multiVars == <<users, u, combined, any_success, files, calls>>

loginVars == <<lpc, login_attempts, timeouts, iterations, submissions, attempt, mainDoc, frames,
               final_html, ret>>

\* the variables of main
vars_main == <<html, webhook, pc, entries, idx, posts, events, icsFile, log, exitCode,
               users, u, combined, any_success, files, calls>>

vars == <<html, webhook, pc, entries, idx, posts, events, icsFile, log, exitCode,
          users, u, combined, any_success, files, calls,
          lpc, login_attempts, timeouts, iterations, submissions, attempt, mainDoc, frames,
          final_html, ret>>

\* the state of the user loop in a run that is not in multi-user mode
MultiIdle ==
    /\ users = <<>>
    /\ u = 1
    /\ combined = <<>>
    /\ any_success = FALSE
    /\ files = <<>>
    /\ calls = <<>>

\* the state of a run that is not inside the login function
LoginIdle ==
    /\ lpc = "idle"
    /\ login_attempts = 0
    /\ timeouts = 0
    /\ iterations = 0
    /\ submissions = 0
    /\ attempt = 0
    /\ mainDoc = [plausible |-> FALSE, keyword |-> FALSE]
    /\ frames = <<>>
    /\ final_html = None
    /\ ret = None

Init ==
    /\ MultiIdle
    /\ LoginIdle
    /\ html \in Htmls
    /\ webhook \in BOOLEAN
    /\ pc = "parse"
    /\ entries = <<>>
    /\ idx = 1
    /\ posts = <<>>
    /\ events = <<>>
    /\ icsFile = None
    /\ log = <<>>
    /\ exitCode = None

\* entries = fetch_entries_for_user(...); a RuntimeError ends the run with 1
FetchEntries ==
    /\ UNCHANGED multiVars
    /\ UNCHANGED loginVars
    /\ pc = "parse"
    /\ LET r == parse_table_entries(html)
       IN IF r.err # ""
          THEN /\ pc' = "exit"
               /\ exitCode' = Some(1)
               /\ log' = Append(log, [kind |-> "fatal", i |-> 0])
               /\ UNCHANGED entries
          ELSE /\ pc' = "send"
               /\ entries' = r.entries
               /\ UNCHANGED <<exitCode, log>>
    /\ idx' = 1
    /\ UNCHANGED <<html, webhook, posts, events, icsFile>>

\* send_plan_records: if not GSHEETS_WEBHOOK or not entries: return
SendSkip ==
    /\ UNCHANGED multiVars
    /\ UNCHANGED loginVars
    /\ pc = "send"
    /\ ~webhook \/ entries = <<>>
    /\ pc' = "build"
    /\ idx' = 1
    /\ UNCHANGED <<html, webhook, entries, posts, events, icsFile, log, exitCode>>

\* the message debug() prints for an outcome of the loop body
SendLogKind(outcome) ==
    IF outcome = "http_error" THEN "webhook_status"
    ELSE IF outcome = "request_exception" THEN "webhook_unreachable"
    ELSE "webhook_payload"

\* a loop entered without a look at GSHEETS_WEBHOOK
SendRecordUnguarded ==
    /\ UNCHANGED multiVars
    /\ UNCHANGED loginVars
    /\ pc = "send"
    /\ idx <= Len(entries)
    /\ \E outcome \in Outcomes :
        /\ posts' = Append(posts, [i |-> idx,
                                   payload |-> MakePayload(UserLabel, entries[idx]),
                                   outcome |-> outcome])
        /\ log' = IF outcome = "ok" THEN log
                  ELSE Append(log, [kind |-> SendLogKind(outcome), i |-> idx])
        /\ idx' = idx + 1
    /\ UNCHANGED <<html, webhook, pc, entries, events, icsFile, exitCode>>

\* one pass of the loop of send_plan_records
SendRecord ==
    /\ UNCHANGED multiVars
    /\ UNCHANGED loginVars
    /\ pc = "send"
    /\ webhook
    /\ idx <= Len(entries)
    /\ \E outcome \in Outcomes :
        /\ posts' = Append(posts, [i |-> idx,
                                   payload |-> MakePayload(UserLabel, entries[idx]),
                                   outcome |-> outcome])
        /\ log' = IF outcome = "ok" THEN log
                  ELSE Append(log, [kind |-> SendLogKind(outcome), i |-> idx])
        /\ IF LoopContinues(outcome)
           THEN idx' = idx + 1 /\ UNCHANGED <<pc, exitCode>>
           ELSE pc' = "crash" /\ exitCode' = Some(1) /\ UNCHANGED idx
    /\ UNCHANGED <<html, webhook, entries, events, icsFile>>

\* the loop of send_plan_records is over
SendDone ==
    /\ UNCHANGED multiVars
    /\ UNCHANGED loginVars
    /\ pc = "send"
    /\ webhook
    /\ entries # <<>>
    /\ idx > Len(entries)
    /\ pc' = "build"
    /\ idx' = 1
    /\ UNCHANGED <<html, webhook, entries, posts, events, icsFile, log, exitCode>>

\* one pass of the loop of build_ics
BuildEntry ==
    /\ UNCHANGED multiVars
    /\ UNCHANGED loginVars
    /\ pc = "build"
    /\ idx <= Len(entries)
    /\ LET r == Resolve(entries[idx])
       IN IF IsNone(r)
          THEN /\ log' = Append(log, [kind |-> "skip", i |-> idx])
               /\ UNCHANGED events
          ELSE /\ events' = Append(events, [i |-> idx, ev |-> MakeEvent(entries[idx], Val(r))])
               /\ UNCHANGED log
    /\ idx' = idx + 1
    /\ UNCHANGED <<html, webhook, pc, entries, posts, icsFile, exitCode>>

\* a write of the calendar as it stands, at any point of the loop
WriteIcsAnyTime ==
    /\ UNCHANGED multiVars
    /\ UNCHANGED loginVars
    /\ pc = "build"
    /\ icsFile' = Some(events)
    /\ pc' = "done"
    /\ exitCode' = Some(0)
    /\ UNCHANGED <<html, webhook, entries, idx, posts, events, log>>

\* with open(output_path, 'wb') as f: f.write(cal.to_ical()), then main returns
WriteIcs ==
    /\ UNCHANGED multiVars
    /\ UNCHANGED loginVars
    /\ pc = "build"
    /\ idx > Len(entries)
    /\ icsFile' = Some(events)
    /\ pc' = "done"
    /\ exitCode' = Some(0)
    /\ UNCHANGED <<html, webhook, entries, idx, posts, events, log>>

Next ==
    \/ FetchEntries
    \/ SendSkip
    \/ SendRecord
    \/ SendDone
    \/ BuildEntry
    \/ WriteIcs

Spec == Init /\ [][Next]_vars

\* parse_table_entries on its own, over the larger set of documents
InitParse ==
    /\ MultiIdle
    /\ LoginIdle
    /\ html \in HtmlsParse
    /\ webhook = FALSE
    /\ pc = "parse"
    /\ entries = <<>>
    /\ idx = 1
    /\ posts = <<>>
    /\ events = <<>>
    /\ icsFile = None
    /\ log = <<>>
    /\ exitCode = None

NextParse == FetchEntries

SpecParse == InitParse /\ [][NextParse]_vars

\* send_plan_records and build_ics called on a list of entries
InitEntries ==
    /\ MultiIdle
    /\ LoginIdle
    /\ html = [kind |-> "table", rows |-> <<>>]
    /\ webhook \in BOOLEAN
    /\ pc = "send"
    /\ entries \in EntryLists
    /\ idx = 1
    /\ posts = <<>>
    /\ events = <<>>
    /\ icsFile = None
    /\ log = <<>>
    /\ exitCode = None

NextEntries ==
    \/ SendSkip
    \/ SendRecord
    \/ SendDone
    \/ BuildEntry
    \/ WriteIcs

SpecEntries == InitEntries /\ [][NextEntries]_vars

\* ---------------------------------------------------------- multi-user mode

\* the largest number of accounts in USERS_JSON
MaxUsers == 2

\* slugify_name(f"user{idx+1}"): the label of the account at position k, which
\* carries neither a name nor a label
UserLabelOf(k) == UserLabel \o <<DigitSeq[k + 1]>>

\* the accounts of USERS_JSON, each with the document its fetch ends on: one
\* without complete credentials, one whose fetch fails, one with a row that
\* both consumers accept
UserPool ==
    <<[creds |-> FALSE, doc |-> [kind |-> "notable", rows |-> <<>>]],
      [creds |-> TRUE, doc |-> [kind |-> "notable", rows |-> <<>>]],
      [creds |-> TRUE, doc |-> [kind |-> "table", rows |-> <<Headers[1], RowPool[2]>>]]>>

\* two more accounts: one whose table holds the same row twice, one with a
\* row whose date is not a calendar date
ExtraUsers ==
    <<[creds |-> TRUE, doc |-> [kind |-> "table", rows |-> <<Headers[1], RowPool[2], RowPool[2]>>]],
      [creds |-> TRUE, doc |-> [kind |-> "table", rows |-> <<Headers[1], RowPool[5]>>]]>>

\* the lists of accounts: every list over UserPool, and the two other
\* accounts alone and next to an account that completes
UsersLists ==
    SeqsUpTo(UserPool, MaxUsers)
    \cup {<<ExtraUsers[1]>>, <<ExtraUsers[2]>>,
          <<ExtraUsers[2], UserPool[3]>>, <<UserPool[3], ExtraUsers[2]>>}

\* the documents of the single-user runs of SpecMain
SingleDocs ==
    {[kind |-> "notable", rows |-> <<>>],
     [kind |-> "table", rows |-> <<Headers[1], RowPool[2]>>],
     [kind |-> "table", rows |-> <<Headers[1], RowPool[5]>>],
     [kind |-> "table", rows |-> <<Headers[1], RowPool[2], RowPool[2]>>]}

\* send_plan_records(user_label=name, entries=user_entries): the posts of the
\* loop, os[j] the outcome of the post of entry j
UserPosts(k, user_entries, os) ==
    [j \in 1..Len(user_entries) |->
        [i |-> j, payload |-> MakePayload(UserLabelOf(k), user_entries[j]), outcome |-> os[j]]]

\* the messages of the posts that did not succeed
UserPostLog(os) ==
    SelectSeq([j \in 1..Len(os) |->
                  [kind |-> IF os[j] = "ok" THEN "" ELSE SendLogKind(os[j]), i |-> j]],
              LAMBDA l : l.kind # "")

\* the entries of a list es whose try block in build_ics gets to end_dt
ResolvedOf(es) ==
    SelectSeq([j \in 1..Len(es) |-> [i |-> j, r |-> Resolve(es[j])]],
              LAMBDA x : ~IsNone(x.r))

\* cal.add_component(ev) for each of them, in the order of the list
EventsOf(es, res) ==
    [k \in 1..Len(res) |-> [i |-> res[k].i, ev |-> MakeEvent(es[res[k].i], Val(res[k].r))]]

\* the events of the calendar build_ics writes for a list es of entries
BuildEvents(es) == EventsOf(es, ResolvedOf(es))

\* the messages of build_ics for the entries of es it skips
BuildSkips(es) ==
    SelectSeq([j \in 1..Len(es) |->
                  [kind |-> IF IsNone(Resolve(es[j])) THEN "skip" ELSE "", i |-> j]],
              LAMBDA l : l.kind # "")

\* <<k, j>> for each entry j of the account at position k
Origins(k, user_entries) == [j \in 1..Len(user_entries) |-> <<k, j>>]

\* combined_entries = user_entries, which forgets the accounts before
CombinedAssign(comb, k, user_entries) ==
    [j \in 1..Len(user_entries) |-> [user |-> k, i |-> j, e |-> user_entries[j]]]

\* combined_entries.extend(user_entries)
CombinedExtend(comb, k, user_entries) ==
    comb \o [j \in 1..Len(user_entries) |-> [user |-> k, i |-> j, e |-> user_entries[j]]]

CombinedEntries(comb) == [k \in 1..Len(comb) |-> comb[k].e]
CombinedOrigins(comb) == [k \in 1..Len(comb) |-> <<comb[k].user, comb[k].i>>]

\* if not u or not p: debug(...); continue
MultiSkipUser ==
    /\ UNCHANGED loginVars
    /\ pc = "users"
    /\ u <= Len(users)
    /\ ~users[u].creds
    /\ log' = Append(log, [kind |-> "user_skipped", i |-> u])
    /\ u' = u + 1
    /\ UNCHANGED <<html, webhook, pc, entries, idx, posts, events, icsFile, exitCode,
                   users, combined, any_success, files, calls>>

\* a fetch whose exception ends the user loop
MultiFetchFailStops ==
    /\ UNCHANGED loginVars
    /\ pc = "users"
    /\ u <= Len(users)
    /\ users[u].creds
    /\ parse_table_entries(users[u].doc).err # ""
    /\ log' = Append(log, [kind |-> "user_error", i |-> u])
    /\ u' = Len(users) + 1
    /\ UNCHANGED <<html, webhook, pc, entries, idx, posts, events, icsFile, exitCode,
                   users, combined, any_success, files, calls>>

\* fetch_entries_for_user raises: except Exception, debug(...), continue
MultiFetchFail ==
    /\ UNCHANGED loginVars
    /\ pc = "users"
    /\ u <= Len(users)
    /\ users[u].creds
    /\ parse_table_entries(users[u].doc).err # ""
    /\ log' = Append(log, [kind |-> "user_error", i |-> u])
    /\ u' = u + 1
    /\ UNCHANGED <<html, webhook, pc, entries, idx, posts, events, icsFile, exitCode,
                   users, combined, any_success, files, calls>>

\* the try block from send_plan_records on, for the entries fetched: the
\* posts, the extension of combined_entries and build_ics for the file of the
\* account; written is FALSE when the write of that file raises, which the
\* except clause catches before any_success is set
UserTry(user_entries, os, written) ==
    /\ entries' = user_entries
    /\ posts' = IF webhook /\ user_entries # <<>>
                THEN posts \o UserPosts(u, user_entries, os) ELSE posts
    /\ combined' = CombinedExtend(combined, u, user_entries)
    /\ calls' = calls \o <<[fn |-> "send", path |-> u, origins |-> Origins(u, user_entries)],
                           [fn |-> "build", path |-> u, origins |-> Origins(u, user_entries)]>>
    /\ files' = IF written
                THEN Append(files, [path |-> u, entries |-> user_entries,
                                    events |-> BuildEvents(user_entries)])
                ELSE files
    /\ any_success' = (any_success \/ written)
    /\ log' = log \o (IF webhook /\ user_entries # <<>> THEN UserPostLog(os) ELSE <<>>)
                  \o BuildSkips(user_entries)
                  \o (IF written THEN <<>> ELSE <<[kind |-> "user_error", i |-> u]>>)

\* one pass of the user loop for an account whose fetch succeeds
MultiUser ==
    /\ UNCHANGED loginVars
    /\ pc = "users"
    /\ u <= Len(users)
    /\ users[u].creds
    /\ LET r == parse_table_entries(users[u].doc)
       IN /\ r.err = ""
          /\ \E os \in (IF webhook THEN [1..Len(r.entries) -> Outcomes]
                         ELSE {[j \in 1..Len(r.entries) |-> "ok"]}),
                written \in BOOLEAN :
                UserTry(r.entries, os, written)
    /\ u' = u + 1
    /\ UNCHANGED <<html, webhook, pc, idx, events, icsFile, exitCode, users>>

\* if not any_success: print(...); sys.exit(1)
MultiNoSuccess ==
    /\ UNCHANGED loginVars
    /\ pc = "users"
    /\ u > Len(users)
    /\ ~any_success
    /\ pc' = "exit"
    /\ exitCode' = Some(1)
    /\ log' = Append(log, [kind |-> "fatal", i |-> 0])
    /\ UNCHANGED <<html, webhook, entries, idx, posts, events, icsFile,
                   users, u, combined, any_success, files, calls>>

\* if combined_entries: build_ics(combined_entries, args.output); return.
\* written is FALSE when the write of args.output raises: nothing catches
\* the exception, and the interpreter ends with a traceback and status 1
MultiCombined ==
    /\ UNCHANGED loginVars
    /\ pc = "users"
    /\ u > Len(users)
    /\ any_success
    /\ \E written \in BOOLEAN :
        IF combined # <<>>
        THEN /\ files' = IF written
                         THEN Append(files, [path |-> 0, entries |-> CombinedEntries(combined),
                                             events |-> BuildEvents(CombinedEntries(combined))])
                         ELSE files
             /\ calls' = Append(calls, [fn |-> "build", path |-> 0,
                                        origins |-> CombinedOrigins(combined)])
             /\ log' = log \o BuildSkips(CombinedEntries(combined))
             /\ pc' = IF written THEN "done" ELSE "crash"
             /\ exitCode' = IF written THEN Some(0) ELSE Some(1)
        ELSE /\ pc' = "done"
             /\ exitCode' = Some(0)
             /\ UNCHANGED <<files, calls, log>>
    /\ UNCHANGED <<html, webhook, entries, idx, posts, events, icsFile,
                   users, u, combined, any_success>>

\* main in either mode: a single account, or the accounts of USERS_JSON
InitMain ==
    /\ LoginIdle
    /\ webhook \in BOOLEAN
    /\ entries = <<>>
    /\ idx = 1
    /\ posts = <<>>
    /\ events = <<>>
    /\ icsFile = None
    /\ log = <<>>
    /\ exitCode = None
    /\ combined = <<>>
    /\ any_success = FALSE
    /\ files = <<>>
    /\ calls = <<>>
    /\ u = 1
    /\ \/ /\ pc = "parse"
          /\ html \in SingleDocs
          /\ users = <<>>
       \/ /\ pc = "users"
          /\ html = [kind |-> "notable", rows |-> <<>>]
          /\ users \in UsersLists

NextMain ==
    \/ FetchEntries
    \/ SendSkip
    \/ SendRecord
    \/ SendDone
    \/ BuildEntry
    \/ WriteIcs
    \/ MultiSkipUser
    \/ MultiFetchFail
    \/ MultiUser
    \/ MultiNoSuccess
    \/ MultiCombined

SpecMain == InitMain /\ [][NextMain]_vars

\* ------------------------------------- login_and_get_einsatz_vorschau_html

\* max_login_attempts
MaxLoginAttempts == 3

\* for attempt in range(10)
PollAttempts == 10

\* the largest number of sub-frames of the page after navigation
MaxFrames == 2

\* the HTML of the main page, and of the sub-frame at position k
MainHtml == <<"main", 0>>
FrameHtml(k) == <<"frame", k>>

\* the sub-frames a page can hold: one whose content() raises, one without a
\* table, one with a table that contains_einsatz_table rejects, and one with
\* a table it accepts
FramePool ==
    <<[raises |-> TRUE, tables |-> FALSE, plausible |-> FALSE],
      [raises |-> FALSE, tables |-> FALSE, plausible |-> FALSE],
      [raises |-> FALSE, tables |-> TRUE, plausible |-> FALSE],
      [raises |-> FALSE, tables |-> TRUE, plausible |-> TRUE]>>

\* the sub-frames whose HTML the frame loop takes
UsableFrames(frms) ==
    {k \in 1..Len(frms) : ~frms[k].raises /\ frms[k].tables /\ frms[k].plausible}

\* the function after page.goto, in front of the login loop
InitLogin ==
    /\ MultiIdle
    /\ html = [kind |-> "notable", rows |-> <<>>]
    /\ webhook = FALSE
    /\ pc = "fetch"
    /\ entries = <<>>
    /\ idx = 1
    /\ posts = <<>>
    /\ events = <<>>
    /\ icsFile = None
    /\ log = <<>>
    /\ exitCode = None
    /\ lpc = "loop"
    /\ login_attempts = 0
    /\ timeouts = 0
    /\ iterations = 0
    /\ submissions = 0
    /\ attempt = 0
    /\ mainDoc = [plausible |-> FALSE, keyword |-> FALSE]
    /\ frames = <<>>
    /\ final_html = None
    /\ ret = None

\* an iteration of the login loop in which try_fill fills both fields: the
\* button is clicked (or Enter pressed) and the polling begins
LoopSubmit ==
    /\ lpc = "loop"
    /\ login_attempts < MaxLoginAttempts
    /\ iterations' = iterations + 1
    /\ submissions' = submissions + 1
    /\ attempt' = 0
    /\ lpc' = "poll"
    /\ UNCHANGED <<login_attempts, timeouts, mainDoc, frames, final_html, ret>>
    /\ UNCHANGED vars_main

\* an iteration in which the fields are not both filled: the page holds the
\* table (return), a keyword of a logged-in page (break), or neither
LoopNoForm ==
    /\ lpc = "loop"
    /\ login_attempts < MaxLoginAttempts
    /\ iterations' = iterations + 1
    /\ \E table, keyword \in BOOLEAN :
        IF table
        THEN lpc' = "returned" /\ ret' = Some(MainHtml) /\ UNCHANGED login_attempts
        ELSE IF keyword
        THEN lpc' = "pre_nav" /\ UNCHANGED <<ret, login_attempts>>
        ELSE login_attempts' = login_attempts + 1 /\ UNCHANGED <<lpc, ret>>
    /\ UNCHANGED <<timeouts, submissions, attempt, mainDoc, frames, final_html>>
    /\ UNCHANGED vars_main

\* except PlaywrightTimeoutError: login_attempts += 1, for a timeout raised
\* in an iteration before the fields are handled
LoopTimeout ==
    /\ lpc = "loop"
    /\ login_attempts < MaxLoginAttempts
    /\ iterations' = iterations + 1
    /\ login_attempts' = login_attempts + 1
    /\ timeouts' = timeouts + 1
    /\ UNCHANGED <<lpc, submissions, attempt, mainDoc, frames, final_html, ret>>
    /\ UNCHANGED vars_main

\* while login_attempts < max_login_attempts is false
LoopExhausted ==
    /\ lpc = "loop"
    /\ login_attempts >= MaxLoginAttempts
    /\ lpc' = "pre_nav"
    /\ UNCHANGED <<login_attempts, timeouts, iterations, submissions, attempt, mainDoc,
                   frames, final_html, ret>>
    /\ UNCHANGED vars_main

\* one pass of the polling after the click: a success indicator holds, none
\* holds yet, or a Playwright call raises a timeout, which the handler of
\* the loop catches
Poll ==
    /\ lpc = "poll"
    /\ \E outcome \in {"success", "waiting", "timeout"} :
        IF outcome = "timeout"
        THEN /\ login_attempts' = login_attempts + 1
             /\ timeouts' = timeouts + 1
             /\ lpc' = "loop"
             /\ UNCHANGED attempt
        ELSE /\ attempt' = attempt + 1
             /\ lpc' = IF outcome = "success" \/ attempt + 1 >= PollAttempts
                       THEN "logged" ELSE "poll"
             /\ UNCHANGED <<login_attempts, timeouts>>
    /\ UNCHANGED <<iterations, submissions, mainDoc, frames, final_html, ret>>
    /\ UNCHANGED vars_main

\* a submission after which the loop goes on when the table is not there yet
AfterSubmitNoBreak ==
    /\ lpc = "logged"
    /\ \E outcome \in {"table", "other", "timeout"} :
        IF outcome = "timeout"
        THEN /\ login_attempts' = login_attempts + 1
             /\ timeouts' = timeouts + 1
             /\ lpc' = "loop"
             /\ UNCHANGED ret
        ELSE IF outcome = "table"
        THEN lpc' = "returned" /\ ret' = Some(MainHtml) /\ UNCHANGED <<login_attempts, timeouts>>
        ELSE lpc' = "loop" /\ login_attempts' = login_attempts + 1 /\ UNCHANGED <<ret, timeouts>>
    /\ UNCHANGED <<iterations, submissions, attempt, mainDoc, frames, final_html>>
    /\ UNCHANGED vars_main

\* after the polling, success detected or not: return page.content() if it
\* holds the table, else break; a timeout goes to the handler of the loop
AfterSubmit ==
    /\ lpc = "logged"
    /\ \E outcome \in {"table", "other", "timeout"} :
        IF outcome = "timeout"
        THEN /\ login_attempts' = login_attempts + 1
             /\ timeouts' = timeouts + 1
             /\ lpc' = "loop"
             /\ UNCHANGED ret
        ELSE IF outcome = "table"
        THEN lpc' = "returned" /\ ret' = Some(MainHtml) /\ UNCHANGED <<login_attempts, timeouts>>
        ELSE lpc' = "pre_nav" /\ UNCHANGED <<ret, login_attempts, timeouts>>
    /\ UNCHANGED <<iterations, submissions, attempt, mainDoc, frames, final_html>>
    /\ UNCHANGED vars_main

\* the check before the navigation, and navigate_to_einsatz_vorschau: the
\* page it ends on has a main document and sub-frames
PreNav ==
    /\ lpc = "pre_nav"
    /\ \E table \in BOOLEAN :
        IF table
        THEN lpc' = "returned" /\ ret' = Some(MainHtml) /\ UNCHANGED <<mainDoc, frames>>
        ELSE /\ lpc' = "frames"
             /\ mainDoc' \in [plausible : BOOLEAN, keyword : BOOLEAN]
             /\ frames' \in SeqsUpTo(FramePool, MaxFrames)
             /\ UNCHANGED ret
    /\ UNCHANGED <<login_attempts, timeouts, iterations, submissions, attempt, final_html>>
    /\ UNCHANGED vars_main

\* for frm in page.frames: the first sub-frame with a plausible table gives
\* current_html = final_html = frm_html, and the loop breaks
ScanFrames ==
    /\ lpc = "frames"
    /\ final_html' = IF UsableFrames(frames) = {} THEN final_html
                     ELSE Some(FrameHtml(Min(UsableFrames(frames))))
    /\ lpc' = "final"
    /\ UNCHANGED <<login_attempts, timeouts, iterations, submissions, attempt, mainDoc,
                   frames, ret>>
    /\ UNCHANGED vars_main

\* final_html = page.content(); return final_html if a table of it holds a
\* keyword; else html = page.content(), which is returned if
\* contains_einsatz_table accepts it, and RuntimeError is raised if not
FinalCheck ==
    /\ lpc = "final"
    /\ final_html' = Some(MainHtml)
    /\ IF mainDoc.keyword \/ mainDoc.plausible
       THEN lpc' = "returned" /\ ret' = Some(MainHtml)
       ELSE lpc' = "raised" /\ UNCHANGED ret
    /\ UNCHANGED <<login_attempts, timeouts, iterations, submissions, attempt, mainDoc,
                   frames>>
    /\ UNCHANGED vars_main

NextLogin ==
    \/ LoopSubmit
    \/ LoopNoForm
    \/ LoopTimeout
    \/ LoopExhausted
    \/ Poll
    \/ AfterSubmit
    \/ PreNav
    \/ ScanFrames
    \/ FinalCheck

SpecLogin == InitLogin /\ [][NextLogin]_vars

\* the statements of the function run one after the other and each
\* Playwright call returns or raises
SpecLoginFair == SpecLogin /\ WF_vars(NextLogin)

\* ------------------------------------------------------------------ claims

\* text s occurs in text t
Contains(t, s) == \E p \in 1..(Len(t) - Len(s) + 1) : SubSeq(t, p, p + Len(s) - 1) = s

\* the run has just returned from parse_table_entries with a list
JustParsed == pc = "send" /\ idx = 1 /\ posts = <<>>

\* the two-row table of the end-to-end example
ExampleHtml == [kind |-> "table", rows |-> <<Headers[1], RowPool[1]>>]
ExampleTitle == <<"H", "a", "u", "s", "b", "e", "s", "u", "c", "h", " ", "M", "uuml", "l", "l", "e", "r">>
ExampleStreet == <<"G", "a", "r", "t", "e", "n", "s", "t", "r", ".", " ", "5">>

\* C1: a run on the two-row example table yields exactly one entry, resolved
\* to the date 2025-03-12, start 10:00, end 11:30, with the title
\* "Hausbesuch Mueller" (u-umlaut) and an address containing "Gartenstr. 5".
C1_EndToEndExample ==
    (pc = "done" /\ html = ExampleHtml) =>
        /\ Len(entries) = 1
        /\ Len(events) = 1
        /\ events[1].ev.dtstart = DateTime(2025, 3, 12, 10, 0)
        /\ events[1].ev.dtend = DateTime(2025, 3, 12, 11, 30)
        /\ events[1].ev.summary = ExampleTitle
        /\ ~IsNone(events[1].ev.location)
        /\ Contains(Val(events[1].ev.location), ExampleStreet)

\* C2 as stated: two events with the same start, end, address and title have
\* the same UID, whatever the rest of their descriptions.
C2_UidFromTitle ==
    \A a, b \in 1..Len(events) :
        (/\ events[a].ev.dtstart = events[b].ev.dtstart
         /\ events[a].ev.dtend = events[b].ev.dtend
         /\ events[a].ev.location = events[b].ev.location
         /\ events[a].ev.summary = events[b].ev.summary)
        => events[a].ev.uid = events[b].ev.uid

\* C2 as amended: two events with the same start, end, address and full
\* description text have the same UID, whatever the other fields of their
\* entries (the date and time texts, the duration) are.
C2_UidFromDescription ==
    \A a, b \in 1..Len(events) :
        (/\ events[a].ev.dtstart = events[b].ev.dtstart
         /\ events[a].ev.dtend = events[b].ev.dtend
         /\ events[a].ev.location = events[b].ev.location
         /\ events[a].ev.description = events[b].ev.description)
        => events[a].ev.uid = events[b].ev.uid

\* two different entries were emitted with the same start, end, address and
\* description
C2_Witness ==
    /\ pc = "done"
    /\ Len(events) = 2
    /\ entries[events[1].i] # entries[events[2].i]
    /\ events[1].ev.dtstart = events[2].ev.dtstart
    /\ events[1].ev.dtend = events[2].ev.dtend
    /\ events[1].ev.location = events[2].ev.location
    /\ events[1].ev.description = events[2].ev.description

\* C3: for every entry the event UID without its suffix equals the einsatzId
\* of the record posted for it, and two entries have equal UIDs exactly when
\* they have equal einsatzIds.
C3_SameIdentifier ==
    /\ \A a \in 1..Len(events), b \in 1..Len(posts) :
           events[a].i = posts[b].i
           => events[a].ev.uid = posts[b].payload.einsatzId \o UidSuffix
    /\ \A a, b \in 1..Len(events), c, d \in 1..Len(posts) :
           (events[a].i = posts[c].i /\ events[b].i = posts[d].i)
           => ((events[a].ev.uid = events[b].ev.uid)
               <=> (posts[c].payload.einsatzId = posts[d].payload.einsatzId))

\* what the texts of an entry say, read off the digits
ClockParts(t) == SplitOn(t, {":", "."})
ClockOk(t) ==
    /\ Len(ClockParts(t)) = 2
    /\ ToInt(ClockParts(t)[1]) <= 23
    /\ ToInt(ClockParts(t)[2]) <= 59
ClockMinutes(t) == ToInt(ClockParts(t)[1]) * 60 + ToInt(ClockParts(t)[2])
DayParts(t) == SplitOn(t, {"."})
DayOk(t) ==
    /\ Len(DayParts(t)) = 3
    /\ ToInt(DayParts(t)[2]) \in 1..12
    /\ ToInt(DayParts(t)[1]) >= 1
    /\ ToInt(DayParts(t)[1])
         <= DaysInMonth(IF Len(DayParts(t)[3]) # 2 THEN ToInt(DayParts(t)[3])
                        ELSE IF ToInt(DayParts(t)[3]) < 70 THEN 2000 + ToInt(DayParts(t)[3])
                        ELSE 1900 + ToInt(DayParts(t)[3]),
                        ToInt(DayParts(t)[2]))
HasEnd(e) == ~IsNone(e.end_time) /\ Val(e.end_time) # <<>>
\* build_ics is past entry j
Built(j) == pc = "done" \/ (pc = "build" /\ j < idx)

\* C4: the end of an event is resolved by strict precedence: an end time
\* later than the start is the end, on the day of the start, whatever the
\* duration; without an end time a positive duration gives start + duration;
\* without an end time and without a positive duration the end is start + 60.
C4_EndPrecedence ==
    \A k \in 1..Len(events) :
        LET e == entries[events[k].i]
            ev == events[k].ev
        IN /\ ev.dtstart % 1440 = ClockMinutes(e.start_time)
           /\ (HasEnd(e) /\ ClockMinutes(Val(e.end_time)) > ClockMinutes(e.start_time))
              => (/\ ev.dtend \div 1440 = ev.dtstart \div 1440
                  /\ ev.dtend % 1440 = ClockMinutes(Val(e.end_time)))
           /\ (~HasEnd(e) /\ ~IsNone(e.duration_minutes) /\ Val(e.duration_minutes) > 0)
              => ev.dtend = ev.dtstart + Val(e.duration_minutes)
           /\ (~HasEnd(e) /\ (IsNone(e.duration_minutes) \/ Val(e.duration_minutes) <= 0))
              => ev.dtend = ev.dtstart + 60

\* an entry with the end 10:15 after its start 09:00 and the duration 45 was
\* emitted as an event of 75 minutes
C4_Witness ==
    /\ pc = "done"
    /\ Len(events) = 1
    /\ entries[1].start_time = <<"0", "9", ":", "0", "0">>
    /\ entries[1].end_time = Some(<<"1", "0", ":", "1", "5">>)
    /\ entries[1].duration_minutes = Some(45)
    /\ events[1].ev.dtend = events[1].ev.dtstart + 75

\* C5: an entry whose end time is valid and at or before its start is not
\* rejected: its event ends 30 minutes after the start, also when the entry
\* has a positive duration.
C5_InvertedRange ==
    \A j \in 1..Len(entries) :
        (/\ Built(j)
         /\ DayOk(entries[j].date)
         /\ ClockOk(entries[j].start_time)
         /\ HasEnd(entries[j])
         /\ ClockOk(Val(entries[j].end_time))
         /\ ClockMinutes(Val(entries[j].end_time)) <= ClockMinutes(entries[j].start_time))
        => \E k \in 1..Len(events) :
               /\ events[k].i = j
               /\ events[k].ev.dtend = events[k].ev.dtstart + 30

\* the entry 09:00 to 08:30 with the duration 45 was emitted as 09:00 to 09:30
C5_Witness ==
    /\ pc = "done"
    /\ Len(events) = 1
    /\ entries[1].start_time = <<"0", "9", ":", "0", "0">>
    /\ entries[1].end_time = Some(<<"0", "8", ":", "3", "0">>)
    /\ entries[1].duration_minutes = Some(45)
    /\ events[1].ev.dtstart = DateTime(2025, 3, 12, 9, 0)
    /\ events[1].ev.dtend = DateTime(2025, 3, 12, 9, 30)

\* the date and the times of an entry pass the validation of build_ics
EntryOk(e) ==
    /\ DayOk(e.date)
    /\ ClockOk(e.start_time)
    /\ HasEnd(e) => ClockOk(Val(e.end_time))
Posted(j) == \E k \in 1..Len(posts) : posts[k].i = j
Emitted(j) == \E k \in 1..Len(events) : events[k].i = j

\* C6 as stated: with a webhook configured, the forwarder dispatches a record
\* for an entry exactly when build_ics emits an event for it; an entry that
\* fails validation is skipped by both.
C6_SameEntrySet ==
    (pc = "done" /\ webhook) =>
        \A j \in 1..Len(entries) :
            /\ Posted(j) <=> Emitted(j)
            /\ ~EntryOk(entries[j]) => (~Posted(j) /\ ~Emitted(j))

\* C6 as amended: with a webhook configured, the forwarder dispatches a record
\* for every entry of the list, also for one that fails validation, and
\* build_ics emits an event exactly for the entries that pass validation; so
\* every emitted entry was also dispatched, and not conversely.
C6_EmittedSubsetOfPosted ==
    (pc = "done" /\ webhook) =>
        \A j \in 1..Len(entries) :
            /\ Posted(j)
            /\ Emitted(j) <=> EntryOk(entries[j])

\* a run with a webhook posted two records and emitted one event
C6_Witness ==
    /\ pc = "done"
    /\ webhook
    /\ Len(entries) = 2
    /\ Len(posts) = 2
    /\ Len(events) = 1
    /\ \E j \in 1..2 : ~EntryOk(entries[j]) /\ Posted(j) /\ ~Emitted(j)

\* C7: with a webhook configured the entries are processed in list order,
\* and whatever the outcomes of the single records (a transport exception, a
\* status >= 400, another exception) every later entry is processed,
\* send_plan_records returns and the calendar is written.
C7_FailuresIsolated ==
    /\ pc # "crash"
    /\ \A k \in 1..Len(posts) : posts[k].i = k
    /\ (pc = "send" /\ webhook) => Len(posts) = idx - 1
    /\ (pc \in {"build", "done"} /\ webhook) => Len(posts) = Len(entries)
    /\ pc = "done" => (icsFile = Some(events) /\ exitCode = Some(0))

\* after a first record that raised and a second that was refused with a
\* status >= 400, the calendar was written
C7_Witness ==
    /\ pc = "done"
    /\ webhook
    /\ Len(posts) = 2
    /\ posts[1].outcome = "other_exception"
    /\ posts[2].outcome = "http_error"
    /\ icsFile = Some(events)

\* C8: build_ics skips an entry whose date or times fail validation, with a
\* logged message and without an event; every other entry, before or after
\* it, is emitted, in input order, and the file is written.
C8_InvalidEntrySkipped ==
    /\ \A k, l \in 1..Len(events) : k < l => events[k].i < events[l].i
    /\ \A j \in 1..Len(entries) :
           Built(j) =>
               IF EntryOk(entries[j]) THEN Emitted(j)
               ELSE /\ ~Emitted(j)
                    /\ \E m \in 1..Len(log) : log[m] = [kind |-> "skip", i |-> j]
    /\ pc = "done" => icsFile = Some(events)

\* an invalid first entry was skipped and the valid second one emitted and
\* written
C8_Witness ==
    /\ pc = "done"
    /\ Len(entries) = 2
    /\ ~EntryOk(entries[1])
    /\ EntryOk(entries[2])
    /\ Len(events) = 1
    /\ events[1].i = 2
    /\ icsFile = Some(events)

\* a row in whose joined text a date and a start time are recognised
RowHasDateAndStart(cells) ==
    /\ ~IsNone(extract_date(Join(cells, CellSep)))
    /\ ~IsNone(extract_time_range(Join(cells, CellSep))[1])

AllDigits(t) == t # <<>> /\ \A k \in 1..Len(t) : t[k] \in Digit
IsGermanDate(t) ==
    /\ Len(DayParts(t)) = 3
    /\ \A k \in 1..3 : AllDigits(DayParts(t)[k])
    /\ Len(DayParts(t)[1]) <= 2
    /\ Len(DayParts(t)[2]) <= 2
    /\ Len(DayParts(t)[3]) \in {2, 4}
IsClockTime(t) ==
    /\ Len(ClockParts(t)) = 2
    /\ \A k \in 1..2 : AllDigits(ClockParts(t)[k])
    /\ Len(ClockParts(t)[1]) <= 2
    /\ Len(ClockParts(t)[2]) = 2
    /\ Cardinality({k \in 1..Len(t) : t[k] \in {":", "."}}) = 1

\* C10: every entry parse_table_entries returns has a date that matches the
\* German date pattern and a start time that matches the time pattern; a row
\* of fewer than two cells, or without a date, or without a start time gives
\* no entry and raises nothing, so the entries are as many as the other rows.
C10_EntriesHaveDateAndStart ==
    /\ \A k \in 1..Len(entries) :
           IsGermanDate(entries[k].date) /\ IsClockTime(entries[k].start_time)
    /\ (pc # "parse" /\ html.kind = "table") =>
           Len(entries) = Cardinality({r \in 1..Len(html.rows) :
                                          /\ Len(html.rows[r]) >= 2
                                          /\ RowHasDateAndStart(html.rows[r])})
    /\ pc = "exit" => entries = <<>>

\* of a row with a date and no time and a row with both, the second alone
\* gave an entry
C10_Witness ==
    /\ pc = "send"
    /\ Len(html.rows) = 3
    /\ html.rows[2] = ExtraRows[1]
    /\ Len(entries) = 1
    /\ entries[1].date = html.rows[3][1]

\* C11: when the first date-shaped text of a row is a valid German date
\* written D.M.YY or D.M.YYYY (here the whole first cell of the only data
\* row), extract_date returns exactly that text, with all four digits of a
\* four-digit year.
C11_WholeDateReturned ==
    (/\ pc = "send"
     /\ Len(html.rows) = 2
     /\ Len(entries) = 1
     /\ IsGermanDate(html.rows[2][1])
     /\ DayOk(html.rows[2][1]))
    => entries[1].date = html.rows[2][1]

\* the duration of the only entry of a table with a column "Dauer" whose data
\* row has the cell text in that column
DurationCellGives(text, minutes) ==
    (/\ pc = "send"
     /\ Len(html.rows) = 2
     /\ html.rows[1] = Headers[2]
     /\ Len(html.rows[2]) >= 3
     /\ html.rows[2][3] = text
     /\ Len(entries) = 1)
    => entries[1].duration_minutes = Some(minutes)

\* C13 as stated: extract_duration_minutes gives 120 for "2,0 Std.", 90 for
\* "90 Minuten" and 150 for "2,30".
C13_DurationsWith150 ==
    /\ DurationCellGives(<<"2", ",", "0", " ", "S", "t", "d", ".">>, 120)
    /\ DurationCellGives(<<"9", "0", " ", "M", "i", "n", "u", "t", "e", "n">>, 90)
    /\ DurationCellGives(<<"2", ",", "3", "0">>, 150)

\* C13 as amended: extract_duration_minutes gives 120 for "2,0 Std.", 90 for
\* "90 Minuten" and 138 for "2,30" (2 hours and 30 hundredths of an hour).
C13_DurationsWith138 ==
    /\ DurationCellGives(<<"2", ",", "0", " ", "S", "t", "d", ".">>, 120)
    /\ DurationCellGives(<<"9", "0", " ", "M", "i", "n", "u", "t", "e", "n">>, 90)
    /\ DurationCellGives(<<"2", ",", "3", "0">>, 138)

\* the row with the duration cell "2,30" was parsed to an entry of 138 minutes
C13_Witness ==
    /\ pc = "send"
    /\ html.rows = <<Headers[2], TextRows[3]>>
    /\ Len(entries) = 1
    /\ entries[1].duration_minutes = Some(138)

\* some date-shaped piece of text t holds every digit of t
DigitsOnlyInDate(t) ==
    \E p \in 1..Len(t), q \in 1..Len(t) :
        /\ p <= q
        /\ IsGermanDate(SubSeq(t, p, q))
        /\ \A k \in 1..Len(t) : t[k] \in Digit => (p <= k /\ k <= q)

\* C14: extract_time_range returns no piece of a date as a time: a row
\* "<date> | H:MM - H:MM | ..." (with an en dash) gives exactly the two times
\* after the date, and a row whose digits all lie inside a date gives no
\* start time, hence no entry.
C14_NoTimeFromDate ==
    /\ (pc = "send" /\ html.rows = <<Headers[1], TextRows[4]>>)
       => (/\ Len(entries) = 1
           /\ entries[1].start_time = <<"0", "8", ":", "0", "0">>
           /\ entries[1].end_time = Some(<<"0", "9", ":", "1", "5">>))
    /\ (pc = "send" /\ Len(html.rows) = 2)
       => ~DigitsOnlyInDate(Join(html.rows[2], CellSep))

\* HH:MM with two digits each and a colon; DD.MM.YYYY
IsPaddedClock(t) ==
    /\ Len(t) = 5
    /\ t[3] = ":"
    /\ \A k \in {1, 2, 4, 5} : t[k] \in Digit
IsPaddedDate(t) ==
    /\ Len(t) = 10
    /\ t[3] = "."
    /\ t[6] = "."
    /\ \A k \in {1, 2, 4, 5, 7, 8, 9, 10} : t[k] \in Digit

\* C12: every record posted for a parsed entry has start_plan and ende_plan
\* written HH:MM, zero-padded and with a colon, and datum written DD.MM.YYYY.
C12_PayloadFormats ==
    \A k \in 1..Len(posts) :
        /\ IsPaddedClock(posts[k].payload.start_plan)
        /\ IsPaddedClock(posts[k].payload.ende_plan)
        /\ IsPaddedDate(posts[k].payload.datum)

\* C16: the calendar file is written once, after the loop of build_ics has
\* resolved or skipped every entry: a written file holds the events of all
\* resolvable entries, never those of a prefix only.
C16_WriteAfterLoop ==
    ~IsNone(icsFile) =>
        /\ pc = "done"
        /\ idx = Len(entries) + 1
        /\ icsFile = Some(events)
        /\ \A j \in 1..Len(entries) :
               EntryOk(entries[j]) => \E k \in 1..Len(Val(icsFile)) : Val(icsFile)[k].i = j

\* a file with the events of two entries was written
C16_Witness ==
    /\ pc = "done"
    /\ Len(entries) = 2
    /\ ~IsNone(icsFile)
    /\ Len(Val(icsFile)) = 2

\* C18: without a webhook URL send_plan_records is a no-op for every entry
\* list: nothing is posted, nothing is logged, the entries stay as they are
\* and the run goes on to build_ics.
C18_NoWebhookNoOp ==
    /\ [](~webhook => (/\ posts = <<>>
                       /\ pc # "crash"
                       /\ \A m \in 1..Len(log) : log[m].kind = "skip"))
    /\ [][(~webhook /\ pc = "send")
          => (/\ pc' = "build"
              /\ entries' = entries
              /\ posts' = posts
              /\ log' = log
              /\ exitCode' = exitCode)]_vars

\* send_plan_records has returned for a list of one entry without a webhook
C18_Witness ==
    /\ ~webhook
    /\ pc = "build"
    /\ idx = 1
    /\ Len(entries) = 1
    /\ posts = <<>>

StartYear(ev) == CivilFromDays(ev.dtstart \div 1440)[1]

\* C19: a two-digit year yy is read as 2000 + yy for yy in 00..69 and as
\* 1900 + yy for yy in 70..99; a four-digit year is read as it stands.
C19_TwoDigitYears ==
    \A k \in 1..Len(events) :
        LET y == DayParts(entries[events[k].i].date)[3]
        IN /\ (Len(y) = 2 /\ ToInt(y) <= 69) => StartYear(events[k].ev) = 2000 + ToInt(y)
           /\ (Len(y) = 2 /\ ToInt(y) >= 70) => StartYear(events[k].ev) = 1900 + ToInt(y)
           /\ Len(y) = 4 => StartYear(events[k].ev) = ToInt(y)

\* the entry of 01.01.70 was emitted as an event of 1970
C19_Witness ==
    /\ pc = "done"
    /\ Len(events) = 1
    /\ entries[1].date = <<"0", "1", ".", "0", "1", ".", "7", "0">>
    /\ events[1].ev.dtstart = DateTime(1970, 1, 1, 9, 0)

\* ---- C15

\* a single-user run that wrote its file; a multi-user run writes to files
SingleDone == pc = "done" /\ ~IsNone(icsFile)

\* entry j of a single-user run went through the loop of build_ics once: it
\* either became one event or was skipped with one message
EmittedOrSkippedOnce(j) ==
    Cardinality({k \in 1..Len(events) : events[k].i = j})
        + Cardinality({k \in 1..Len(log) : log[k].kind = "skip" /\ log[k].i = j}) = 1

\* at the end of a single-user run each entry was posted once if there is a
\* webhook, never otherwise, and went through build_ics once
SingleOnce ==
    SingleDone =>
        \A j \in 1..Len(entries) :
            /\ Cardinality({k \in 1..Len(posts) : posts[k].i = j}) = (IF webhook THEN 1 ELSE 0)
            /\ EmittedOrSkippedOnce(j)

\* the calls of fn that were handed entry o = <<account, position>>
Passes(fn, o) ==
    Cardinality({c \in 1..Len(calls) :
                    calls[c].fn = fn /\ \E p \in 1..Len(calls[c].origins) : calls[c].origins[p] = o})

\* the entries the fetch for the account at position k returns, none when the
\* account is skipped or the fetch raises
FetchedOf(k) ==
    IF users[k].creds THEN parse_table_entries(users[k].doc).entries ELSE <<>>

\* the entries fetched so far in a multi-user run, as <<account, position>>
FetchedSoFar ==
    UNION {{<<k, j>> : j \in 1..Len(FetchedOf(k))} : k \in 1..Min({u - 1, Len(users)})}

\* the posts made for entry o of a multi-user run
PostsFor(o) ==
    Cardinality({k \in 1..Len(posts) :
                    posts[k].i = o[2] /\ posts[k].payload.user = UserLabelOf(o[1])})

\* C15 as stated: In every program run (single-user and multi-user mode), each
\* entry returned for a user is passed through the Sync Forwarder exactly once
\* and through the Calendar Emitter exactly once.
C15_OncePerRun ==
    /\ SingleOnce
    /\ (pc \in {"done", "exit", "crash"} /\ users # <<>>) =>
            \A o \in FetchedSoFar : Passes("send", o) = 1 /\ Passes("build", o) = 1

\* C15, amended: in a single-user run each entry is passed through the Sync
\* Forwarder once and through the Calendar Emitter once.  In a multi-user run
\* each entry of an account whose fetch succeeded is passed through the
\* forwarder once (one post, if there is a webhook) and through the emitter
\* once for the file of the account, and once more, for the combined file, in
\* a run that ends with at least one account completed.
C15_PassesPerMode ==
    /\ SingleOnce
    /\ users # <<>> =>
            \A o \in FetchedSoFar :
                /\ Passes("send", o) = 1
                /\ PostsFor(o) = (IF webhook THEN 1 ELSE 0)
                /\ Passes("build", o) = (IF pc \in {"done", "crash"} THEN 2 ELSE 1)

\* a multi-user run with a webhook that fetched entries for two accounts and
\* wrote the combined file
C15_Witness ==
    /\ pc = "done"
    /\ webhook
    /\ Len(combined) = 2
    /\ combined[1].user # combined[2].user
    /\ \E f \in 1..Len(files) : files[f].path = 0

\* ---- C17

\* no two events of calendar evs carry the same UID
DistinctUids(evs) ==
    \A k1, k2 \in 1..Len(evs) : evs[k1].ev.uid = evs[k2].ev.uid => k1 = k2

\* C17: If two entries of one run resolve to the same identifier (a duplicated
\* table row, or the same row appearing for two users in the combined file),
\* the emitted calendar document contains at most one event with that UID.
C17_OneEventPerUid ==
    /\ SingleDone => DistinctUids(Val(icsFile))
    /\ \A f \in 1..Len(files) : DistinctUids(files[f].events)

\* ---- C21

\* C21: For every entry, the end time the Sync Forwarder sends as ende_plan
\* denotes the same clock time as the DTEND the Calendar Emitter writes for
\* that entry, both when end_time is absent (duration, then 60-minute
\* default) and when end_time is present (including an end at or before the
\* start).
C21_SameEndClock ==
    (pc = "done" /\ webhook) =>
        \A k \in 1..Len(events), p \in 1..Len(posts) :
            posts[p].i = events[k].i =>
                /\ ClockOk(posts[p].payload.ende_plan)
                /\ ClockMinutes(posts[p].payload.ende_plan) = events[k].ev.dtend % 1440

\* ---- C22

\* a row of a date cell, a cell with one start time, an empty cell and a
\* description without a digit: no end time, no duration phrase
PlainRow(cells) ==
    /\ Len(cells) = 4
    /\ IsGermanDate(cells[1])
    /\ IsClockTime(cells[2])
    /\ cells[3] = <<>>
    /\ \A k \in 1..Len(cells[4]) : cells[4][k] \notin Digit

\* C22: A row that contains a date, a single start time, no end time and no
\* duration phrase is returned by parse_table_entries with duration_minutes
\* absent, so that its resolved end is start + 60 minutes (the date's own
\* digits are not read as a duration).
C22_PlainRowDefaultsTo60 ==
    (/\ html.kind = "table"
     /\ Len(html.rows) >= 2
     /\ \A k \in 2..Len(html.rows) : PlainRow(html.rows[k])
     /\ pc \in {"send", "build", "done"}) =>
        /\ Len(entries) = Len(html.rows) - 1
        /\ \A j \in 1..Len(entries) : IsNone(entries[j].duration_minutes)
        /\ \A k \in 1..Len(events) :
                events[k].ev.dtend = events[k].ev.dtstart + DefaultDurationMinutes

\* ---- C24

\* a run that is over and wrote no single-user file
RunEnded == pc \in {"exit", "done", "crash"} /\ IsNone(icsFile)

\* the file of the account at position k was written
Completed(k) == \E f \in 1..Len(files) : files[f].path = k

\* the account at position k was tried: its fetch raised, or its entries
\* were handed to send_plan_records
Attempted(k) ==
    \/ \E l \in 1..Len(log) : log[l] = [kind |-> "user_error", i |-> k]
    \/ \E c \in 1..Len(calls) : calls[c].fn = "send" /\ calls[c].path = k

\* the entries of the accounts at positions 1..k whose fetch succeeded, in
\* the order of the list
RECURSIVE FetchedUpTo(_)
FetchedUpTo(k) == IF k = 0 THEN <<>> ELSE FetchedUpTo(k - 1) \o FetchedOf(k)

\* every account with complete credentials was tried, in the order of the
\* list, and no other account was
AllAttemptedInOrder ==
    /\ u = Len(users) + 1
    /\ \A k \in 1..Len(users) : Attempted(k) <=> users[k].creds
    /\ \A c1, c2 \in 1..Len(calls) :
            (c1 < c2 /\ calls[c2].path # 0) => calls[c1].path <= calls[c2].path

\* args.output holds the entries of exactly the accounts whose fetch succeeded
CombinedWritten ==
    \E f \in 1..Len(files) :
        files[f].path = 0 /\ files[f].entries = FetchedUpTo(Len(users))

\* C24 as stated: In multi-user mode every user with complete credentials is
\* attempted in list order regardless of failures of earlier users; the
\* process exits with status 1 if and only if no user completed fetch,
\* forwarding and per-user calendar write, and otherwise the combined calendar
\* is written from the entries of exactly the users whose fetch succeeded.
C24_ExitOneIffNoneCompleted ==
    RunEnded =>
        /\ AllAttemptedInOrder
        /\ exitCode = Some(1) <=> ~\E k \in 1..Len(users) : Completed(k)
        /\ (\E k \in 1..Len(users) : Completed(k)) => CombinedWritten

\* C24, amended: In multi-user mode every user with complete credentials is
\* attempted in list order regardless of failures of earlier users.  If no
\* user completed fetch, forwarding and per-user calendar write, the process
\* exits with status 1 and writes no combined calendar.  Otherwise the
\* combined calendar is built from the entries of exactly the users whose
\* fetch succeeded, and the process ends with status 0 when that file is
\* written; when its write fails the exception is not caught and the process
\* ends with status 1 although a user completed.
C24_ExitStatusPerOutcome ==
    RunEnded =>
        /\ AllAttemptedInOrder
        /\ pc = "exit" <=> ~\E k \in 1..Len(users) : Completed(k)
        /\ pc = "exit" => exitCode = Some(1) /\ ~\E f \in 1..Len(files) : files[f].path = 0
        /\ pc = "done" => exitCode = Some(0) /\ CombinedWritten
        /\ pc = "crash" =>
                /\ exitCode = Some(1)
                /\ ~\E f \in 1..Len(files) : files[f].path = 0
                /\ calls[Len(calls)] = [fn |-> "build", path |-> 0,
                                        origins |-> CombinedOrigins(combined)]
                /\ CombinedEntries(combined) = FetchedUpTo(Len(users))

\* a run of two accounts with credentials in which the first did not complete
\* and the second did, and the combined file was written
C24_Witness ==
    /\ pc = "done"
    /\ Len(users) = 2
    /\ users[1].creds
    /\ ~Completed(1)
    /\ Completed(2)
    /\ CombinedWritten

\* ---- C23

\* C23: In login_and_get_einsatz_vorschau_html, when after navigation a
\* plausible schedule table is found only inside a sub-frame, the HTML that
\* is subsequently analysed and returned is that frame's HTML, not the main
\* page's HTML.
C23_FrameHtmlReturned ==
    (/\ lpc \in {"returned", "raised"}
     /\ ~mainDoc.plausible
     /\ UsableFrames(frames) # {}) =>
        /\ lpc = "returned"
        /\ final_html = Some(FrameHtml(Min(UsableFrames(frames))))
        /\ ret = final_html

\* ---- C25

\* the function is inside the login loop
InLoginLoop == lpc \in {"loop", "poll", "logged"}

\* C25 as stated: The login loop always terminates: it runs at most 3
\* iterations when no login form is found or a Playwright timeout occurs, and
\* it submits the credentials at most once (after a submission it leaves the
\* loop whether or not login success was detected).
C25_SubmitsAtMostOnce ==
    /\ [](iterations <= MaxLoginAttempts /\ submissions <= 1)
    /\ <>(~InLoginLoop)

\* C25, amended: The login loop always terminates after at most 3
\* iterations.  After a submission it leaves the loop whether or not login
\* success was detected, unless a Playwright timeout is raised after the
\* submission: the timeout handler counts an attempt and the loop goes on, so
\* the credentials are submitted once more than timeouts occurred at most,
\* and never more than 3 times.
C25_LoopTerminates ==
    /\ [](/\ iterations <= MaxLoginAttempts
          /\ login_attempts <= MaxLoginAttempts
          /\ timeouts <= login_attempts
          /\ submissions <= timeouts + 1
          /\ submissions <= MaxLoginAttempts
          /\ attempt <= PollAttempts)
    /\ [][(lpc \in {"poll", "logged"} /\ lpc' = "loop") => timeouts' = timeouts + 1]_vars
    /\ <>(~InLoginLoop)

\* the loop was left after three iterations, two of them with a submission
C25_Witness ==
    /\ lpc = "pre_nav"
    /\ iterations = MaxLoginAttempts
    /\ submissions >= 2

====
